---- MODULE Spec2Model ----
(***************************************************************************)
(* Verification model of the crossword generators of StefKors/crossword:   *)
(*   - the fill-in template generator  (fillinGenerator.ts, generateTemplate)*)
(*   - the fill-in CSP solver, greedy patch and assembler                  *)
(*   - the classic placement strategies (crosswordGenerator.ts)            *)
(* Each engine is a state machine over its own group of variables; the     *)
(* variables of the engines a specification does not run stay idle.        *)
(***************************************************************************)
EXTENDS Integers, Sequences, FiniteSets, TLC

VARIABLES
    \* ---- generateTemplate ----
    tW, tH,        \* width, height passed to generateTemplate
    tGrid,         \* grid[r][c], TRUE = white, FALSE = black
    tpc,           \* position inside generateTemplate
    tPass,         \* phase-1 pass counter
    tBroke,        \* `broke` flag of the current pass
    tStage,        \* "row" or "col": which run list is being processed
    tRuns,         \* the run list computed by findRuns for this stage
    tRunIdx,       \* index of the run being processed (1-based into tRuns)
    tPositions,    \* break positions of the current run not yet tried
    tBudget,       \* scatterBudget
    tAdded,        \* `added` counter of phase 2
    tLast,         \* outcome of the placeBlackPair call made by the last step
    \* ---- dictionary (wordlist.ts) ----
    wordlist,      \* parseWordlist() with each word's playability score
    \* ---- fill-in solver (solve, greedyPatch, assembleResult) ----
    fTemplate, fW, fH,  \* the template handed to extractSlots and its size
    maxBacktracks, \* solve's backtrack cap
    shuffleTop,    \* how many leading candidates getOrderedCandidates shuffles
    slots,         \* extractSlots(template), indexed from 1
    assignments,   \* state.assignments (Null = unassigned)
    domains,       \* state.domains, each in the iteration order of its Set
    usedWords,     \* usedWords
    bt,            \* bt.count
    best,          \* best partial: [assignments, filledCount]
    stack,         \* active calls of solve, innermost last
    fpc,           \* position inside the fill-in pipeline
    fRet,          \* value returned by the call of solve that returned last
    gResult,       \* greedyPatch: result
    gUsed,         \* greedyPatch: usedWords
    gProgress,     \* greedyPatch: progress
    gQueue,        \* greedyPatch: unfilled slots of this pass still to visit
    fResult,       \* CrosswordData returned by assembleResult
    \* ---- classic strategies (crosswordGenerator.ts) ----
    cTag,          \* the algorithm tag passed to generateCrossword
    cAlg,          \* the strategy the switch of generateCrossword selects
    cWords,        \* the input word list, in input order
    cGrid,         \* the working grid
    cPlaced,       \* placed: GridWord[]
    cQueue,        \* the words the current loop still has to visit
    cUnplaced,     \* unplaced / stillUnplaced / skipped built by the loop
    cPass,         \* retry pass counter
    cpc,           \* position inside the strategy
    cBounds,       \* bounds taken before gap filling
    cSet,          \* placedWordSet of gap filling
    cScan,         \* row (column) the gap-filling scan visits next
    cAttempt,      \* generateSmart: attempt counter
    cBest,         \* generateSmart: bestResult
    cResult,       \* CrosswordData returned by finalize
    \* ---- generateCrosswordAsync and the worker ----
    aRequestId,    \* _requestId
    aCalls,        \* the calls of generateCrosswordAsync made so far
    aListeners,    \* calls whose handler is a "message" listener of the worker
    aToWorker,     \* messages posted to the worker, not yet received
    aToMain,       \* messages posted by the worker, not yet dispatched
    wCur,          \* the request self.onmessage is handling (Null = none)
    wProgress,     \* progress messages posted for the request so far
    wPosted,       \* every message the worker has posted, in order
    wHandled,      \* ids of the requests self.onmessage has finished
    aFaults,       \* the failures so far: undelivered messages, callbacks that threw
    \* ---- generateFillinSmart: the attempts and restarts ----
    dpc,           \* position in generateFillinSmart
    dAttempt,      \* attempt
    dRestart,      \* restart
    dBestScore,    \* bestScore, a fraction <<numerator, denominator>>
    dBestResult,   \* bestResult (Null = null)
    dBestFill,     \* <<filled slots, slots>> of the template behind bestResult
    dAssigned,     \* some restart so far has assigned a word to a slot
    dReturn,       \* the value returned
    \* ---- findPlacements on a freshly seeded grid ----
    pSeed,         \* first: the word placed first
    pWord,         \* word: the word findPlacements is asked to place
    pGrid,         \* grid
    pPlaced,       \* placed
    pCands,        \* candidates, as returned
    ppc,           \* position: "start", "seeded", "found"
    \* ---- the module-level caches (wordlist.ts and the two generators) ----
    rawPlayability,    \* NSWL2023-Playability.txt, as its lines
    cachedPlayability, \* cachedPlayability
    cachedEntries,     \* cachedEntries
    validWords,        \* _validWords
    cachedWords,       \* _cachedWords
    kCap,              \* the value of MAX_PER_LENGTH the buckets are cut to
    kReturned          \* <<function, word, value>> of every lookup answered so far

tvars == <<tW, tH, tGrid, tpc, tPass, tBroke, tStage, tRuns, tRunIdx,
           tPositions, tBudget, tAdded, tLast>>

fvars == <<fTemplate, fW, fH, maxBacktracks, shuffleTop, slots, assignments, domains,
           usedWords, bt, best, stack, fpc, fRet, gResult, gUsed, gProgress,
           gQueue, fResult>>

cvars == <<cTag, cAlg, cWords, cGrid, cPlaced, cQueue, cUnplaced, cPass, cpc,
           cBounds, cSet, cScan, cAttempt, cBest, cResult>>

avars == <<aRequestId, aCalls, aListeners, aToWorker, aToMain, wCur, wProgress,
           wPosted, wHandled, aFaults>>

dvars == <<dpc, dAttempt, dRestart, dBestScore, dBestResult, dBestFill, dAssigned,
           dReturn>>

pvars == <<pSeed, pWord, pGrid, pPlaced, pCands, ppc>>

kvars == <<rawPlayability, cachedPlayability, cachedEntries, validWords,
           cachedWords, kCap, kReturned>>

vars == <<tvars, wordlist, fvars, cvars, avars, dvars, pvars, kvars>>

NotTemplate == <<wordlist, fvars, cvars, avars, dvars, pvars, kvars>>
NotFillin == <<tvars, cvars, avars, dvars, pvars, kvars>>
NotClassic == <<tvars, fvars, avars, dvars, pvars, kvars>>
NotAsync == <<tvars, wordlist, fvars, cvars, dvars, pvars, kvars>>
NotDriver == <<tvars, cvars, avars, pvars, kvars>>
NotPlacements == <<tvars, wordlist, fvars, cvars, avars, dvars, kvars>>
NotCache == <<tvars, fvars, cvars, avars, dvars, pvars>>

\* The values the variables of an engine hold while another engine runs.
TemplateIdle ==
    /\ tW = 0 /\ tH = 0 /\ tGrid = <<>> /\ tpc = "idle" /\ tPass = 0
    /\ tBroke = FALSE /\ tStage = "row" /\ tRuns = <<>> /\ tRunIdx = 1
    /\ tPositions = {} /\ tBudget = 0 /\ tAdded = 0
    /\ tLast = [called |-> FALSE, r |-> 0, c |-> 0, ok |-> FALSE]

FillinIdle ==
    /\ fTemplate = <<>> /\ fW = 0 /\ fH = 0 /\ maxBacktracks = 0
    /\ shuffleTop = 0
    /\ slots = <<>> /\ assignments = <<>> /\ domains = <<>>
    /\ usedWords = {} /\ bt = 0
    /\ best = [assignments |-> <<>>, filledCount |-> 0]
    /\ stack = <<>> /\ fpc = "idle" /\ fRet = FALSE
    /\ gResult = <<>> /\ gUsed = {} /\ gProgress = FALSE /\ gQueue = <<>>
    /\ fResult = <<>>

ClassicIdle ==
    /\ cTag = "none" /\ cAlg = "none" /\ cWords = <<>> /\ cGrid = <<>> /\ cPlaced = <<>>
    /\ cQueue = <<>> /\ cUnplaced = <<>> /\ cPass = 0 /\ cpc = "idle"
    /\ cBounds = <<>> /\ cSet = {} /\ cScan = 0 /\ cAttempt = 0 /\ cBest = <<>>
    /\ cResult = <<>>

PlacementsIdle ==
    /\ pSeed = <<>> /\ pWord = <<>> /\ pGrid = <<>> /\ pPlaced = <<>>
    /\ pCands = <<>> /\ ppc = "idle"

DriverIdle ==
    /\ dpc = "idle" /\ dAttempt = 0 /\ dRestart = 0 /\ dBestScore = <<-1, 1>>
    /\ dBestResult = <<>> /\ dBestFill = <<0, 0>> /\ dAssigned = FALSE
    /\ dReturn = <<>>

AsyncIdle ==
    /\ aRequestId = 0 /\ aCalls = <<>> /\ aListeners = <<>> /\ aToWorker = <<>>
    /\ aToMain = <<>> /\ wCur = <<>> /\ wProgress = 0 /\ wPosted = <<>>
    /\ wHandled = <<>> /\ aFaults = <<>>

\* A cache that has not been built yet, and one holding a value.
NoCache == [built |-> FALSE, value |-> <<>>]
Built(v) == [built |-> TRUE, value |-> v]

CacheIdle ==
    /\ rawPlayability = <<>> /\ cachedPlayability = NoCache
    /\ cachedEntries = NoCache /\ validWords = NoCache /\ cachedWords = NoCache
    /\ kCap = 0 /\ kReturned = {}

\* ------------------------------------------------------------------------
\* Generic helpers
\* ------------------------------------------------------------------------
Max(a, b) == IF a >= b THEN a ELSE b
Min(a, b) == IF a <= b THEN a ELSE b

\* ------------------------------------------------------------------------
\* Fill-in template generation (fillinGenerator.ts)
\* ------------------------------------------------------------------------
MAX_SLOT_LENGTH == 8
MIN_SLOT_LENGTH == 3
MaxPasses == 20

\* Bounds of the model: square templates up to MaxSide, plus the two
\* smallest oblong templates in which phase 1 has a run to break.
MaxSide == 9
TemplateDims ==
    {<<n, n>> : n \in 0..MaxSide}
      \cup {<<MAX_SLOT_LENGTH + 1, MIN_SLOT_LENGTH + 1>>,
            <<MIN_SLOT_LENGTH + 1, MAX_SLOT_LENGTH + 1>>,
            <<2, 5>>, <<5, 1>>}

NoCall == [called |-> FALSE, r |-> 0, c |-> 0, ok |-> FALSE]

makeWhiteGrid(w, h) == [r \in 0..(h - 1) |-> [c \in 0..(w - 1) |-> TRUE]]

\* Cell (i, j) of a line scan: rows are scanned along columns and vice versa.
LineCell(grid, direction, i, j) ==
    IF direction = "row" THEN grid[i][j] ELSE grid[j][i]

\* The inner loop of findRuns for line i, from position j on.
RECURSIVE ScanLine(_, _, _, _, _, _, _)
ScanLine(grid, direction, secondary, i, j, runStart, runs) ==
    IF j > secondary THEN runs
    ELSE
        LET isWhite == j < secondary /\ LineCell(grid, direction, i, j) IN
        IF isWhite
        THEN ScanLine(grid, direction, secondary, i, j + 1,
                      IF runStart = -1 THEN j ELSE runStart, runs)
        ELSE IF runStart # -1
             THEN ScanLine(grid, direction, secondary, i, j + 1, -1,
                           Append(runs, [line |-> i, start |-> runStart,
                                         length |-> j - runStart]))
             ELSE ScanLine(grid, direction, secondary, i, j + 1, -1, runs)

\* The outer loop of findRuns: the runs of lines 0..i, line by line.
RECURSIVE ScanLines(_, _, _, _)
ScanLines(grid, direction, secondary, i) ==
    IF i < 0 THEN <<>>
    ELSE ScanLines(grid, direction, secondary, i - 1)
           \o ScanLine(grid, direction, secondary, i, 0, -1, <<>>)

findRuns(grid, width, height, direction) ==
    LET primary == IF direction = "row" THEN height ELSE width
        secondary == IF direction = "row" THEN width ELSE height
    IN ScanLines(grid, direction, secondary, primary - 1)

\* hasInvalidSlots: some horizontal or vertical run of whites has length 1 or 2.
RECURSIVE ShortRunInLine(_, _, _, _, _, _)
ShortRunInLine(grid, direction, secondary, i, j, run) ==
    IF j > secondary THEN FALSE
    ELSE IF j < secondary /\ LineCell(grid, direction, i, j)
         THEN ShortRunInLine(grid, direction, secondary, i, j + 1, run + 1)
         ELSE IF run = 1 \/ run = 2 THEN TRUE
              ELSE ShortRunInLine(grid, direction, secondary, i, j + 1, 0)

hasInvalidSlots(grid, width, height) ==
    \/ \E r \in 0..(height - 1) : ShortRunInLine(grid, "row", width, r, 0, 0)
    \/ \E c \in 0..(width - 1) : ShortRunInLine(grid, "col", height, c, 0, 0)

WhiteCells(grid, width, height) ==
    {rc \in (0..(height - 1)) \X (0..(width - 1)) : grid[rc[1]][rc[2]]}

Neighbours(rc) ==
    {<<rc[1] - 1, rc[2]>>, <<rc[1] + 1, rc[2]>>,
     <<rc[1], rc[2] - 1>>, <<rc[1], rc[2] + 1>>}

\* The breadth-first search of isConnected: `visited` grows by the white
\* in-grid neighbours of the frontier until the queue is empty.
RECURSIVE Flood(_, _, _)
Flood(whites, frontier, visited) ==
    IF frontier = {} THEN visited
    ELSE LET next == {n \in UNION {Neighbours(rc) : rc \in frontier} :
                          n \in whites /\ n \notin visited}
         IN Flood(whites, next, visited \cup next)

\* First white cell in row-major order (startR, startC of isConnected).
FirstCell(cells) ==
    CHOOSE rc \in cells :
        \A o \in cells : rc[1] < o[1] \/ (rc[1] = o[1] /\ rc[2] <= o[2])

isConnected(grid, width, height) ==
    LET whites == WhiteCells(grid, width, height) IN
    IF Cardinality(whites) = 0 THEN TRUE
    ELSE LET start == FirstCell(whites) IN
         Cardinality(Flood(whites, {start}, {start})) = Cardinality(whites)

Blacken(grid, r, c) == [grid EXCEPT ![r][c] = FALSE]

\* Mutants of placeBlackPair: the symmetric partner is forgotten; the short-run
\* check is dropped; the connectivity check is dropped.
placeBlackPair_NoPartner(grid, r, c, width, height) ==
    LET placed == Blacken(grid, r, c)
    IN IF ~grid[r][c] THEN [ok |-> FALSE, grid |-> grid]
       ELSE IF hasInvalidSlots(placed, width, height)
                 \/ ~isConnected(placed, width, height)
            THEN [ok |-> FALSE, grid |-> grid]
            ELSE [ok |-> TRUE, grid |-> placed]

placeBlackPair_NoSlotCheck(grid, r, c, width, height) ==
    LET sr == height - 1 - r
        sc == width - 1 - c
        isSame == r = sr /\ c = sc
        placed == IF isSame THEN Blacken(grid, r, c)
                  ELSE Blacken(Blacken(grid, r, c), sr, sc)
    IN IF ~grid[r][c] THEN [ok |-> FALSE, grid |-> grid]
       ELSE IF ~isSame /\ ~grid[sr][sc] THEN [ok |-> FALSE, grid |-> grid]
       ELSE IF ~isConnected(placed, width, height)
            THEN [ok |-> FALSE, grid |-> grid]
            ELSE [ok |-> TRUE, grid |-> placed]

placeBlackPair_NoConnCheck(grid, r, c, width, height) ==
    LET sr == height - 1 - r
        sc == width - 1 - c
        isSame == r = sr /\ c = sc
        placed == IF isSame THEN Blacken(grid, r, c)
                  ELSE Blacken(Blacken(grid, r, c), sr, sc)
    IN IF ~grid[r][c] THEN [ok |-> FALSE, grid |-> grid]
       ELSE IF ~isSame /\ ~grid[sr][sc] THEN [ok |-> FALSE, grid |-> grid]
       ELSE IF hasInvalidSlots(placed, width, height)
            THEN [ok |-> FALSE, grid |-> grid]
            ELSE [ok |-> TRUE, grid |-> placed]

\* A placeBlackPair that returns false on a failed check without reverting.
placeBlackPair_NoRevert(grid, r, c, width, height) ==
    LET sr == height - 1 - r
        sc == width - 1 - c
        isSame == r = sr /\ c = sc
        placed == IF isSame THEN Blacken(grid, r, c)
                  ELSE Blacken(Blacken(grid, r, c), sr, sc)
    IN IF ~grid[r][c] THEN [ok |-> FALSE, grid |-> grid]
       ELSE IF ~isSame /\ ~grid[sr][sc] THEN [ok |-> FALSE, grid |-> grid]
       ELSE IF hasInvalidSlots(placed, width, height)
                 \/ ~isConnected(placed, width, height)
            THEN [ok |-> FALSE, grid |-> placed]
            ELSE [ok |-> TRUE, grid |-> placed]

\* placeBlackPair: [ok, grid] = the return value and the grid it leaves.
placeBlackPair(grid, r, c, width, height) ==
    LET sr == height - 1 - r
        sc == width - 1 - c
        isSame == r = sr /\ c = sc
        placed == IF isSame THEN Blacken(grid, r, c)
                  ELSE Blacken(Blacken(grid, r, c), sr, sc)
    IN IF ~grid[r][c] THEN [ok |-> FALSE, grid |-> grid]
       ELSE IF ~isSame /\ ~grid[sr][sc] THEN [ok |-> FALSE, grid |-> grid]
       ELSE IF hasInvalidSlots(placed, width, height)
                 \/ ~isConnected(placed, width, height)
            THEN [ok |-> FALSE, grid |-> grid]
            ELSE [ok |-> TRUE, grid |-> placed]

BlackCount(grid, width, height) ==
    Cardinality(((0..(height - 1)) \X (0..(width - 1)))
                  \ WhiteCells(grid, width, height))

\* Math.floor(totalCells * 0.18)
TargetBlack(width, height) == (width * height * 18) \div 100

InitTemplate ==
    /\ \E d \in TemplateDims : tW = d[1] /\ tH = d[2]
    /\ AsyncIdle
    /\ CacheIdle
    /\ PlacementsIdle
    /\ DriverIdle
    /\ tGrid = makeWhiteGrid(tW, tH)
    /\ tpc = "pass"
    /\ tPass = 0
    /\ tBroke = FALSE
    /\ tStage = "row"
    /\ tRuns = <<>>
    /\ tRunIdx = 1
    /\ tPositions = {}
    /\ tBudget = 0
    /\ tAdded = 0
    /\ tLast = NoCall
    /\ wordlist = <<>>
    /\ FillinIdle
    /\ ClassicIdle

\* for (let pass = 0; pass < 20; pass++) { broke = false; hRuns = findRuns(row)
T_BeginPass ==
    /\ tpc = "pass"
    /\ IF tPass < MaxPasses
       THEN /\ tBroke' = FALSE
            /\ tStage' = "row"
            /\ tRuns' = findRuns(tGrid, tW, tH, "row")
            /\ tRunIdx' = 1
            /\ tpc' = "runs"
       ELSE /\ tpc' = "scatter_init"
            /\ UNCHANGED <<tBroke, tStage, tRuns, tRunIdx>>
    /\ tLast' = NoCall
    /\ UNCHANGED <<tW, tH, tGrid, tPass, tPositions, tBudget, tAdded>>
    /\ UNCHANGED NotTemplate

\* for (const run of runs): skip short runs, else build the position list
T_NextRun ==
    /\ tpc = "runs"
    /\ tRunIdx <= Len(tRuns)
    /\ LET run == tRuns[tRunIdx]
           minPos == run.start + MIN_SLOT_LENGTH
           maxPos == run.start + run.length - MIN_SLOT_LENGTH - 1
       IN IF run.length <= MAX_SLOT_LENGTH \/ minPos > maxPos
          THEN /\ tRunIdx' = tRunIdx + 1
               /\ UNCHANGED <<tpc, tPositions>>
          ELSE /\ tPositions' = minPos..maxPos
               /\ tpc' = "positions"
               /\ UNCHANGED tRunIdx
    /\ tLast' = NoCall
    /\ UNCHANGED <<tW, tH, tGrid, tPass, tBroke, tStage, tRuns, tBudget, tAdded>>
    /\ UNCHANGED NotTemplate

\* for (const p of positions) if (placeBlackPair(...)) { broke = true; break }
\* The shuffle makes any untried position the next one.
T_TryBreak ==
    /\ tpc = "positions"
    /\ IF tPositions = {}
       THEN /\ tRunIdx' = tRunIdx + 1
            /\ tpc' = "runs"
            /\ tLast' = NoCall
            /\ UNCHANGED <<tGrid, tBroke, tPositions>>
       ELSE \E p \in tPositions :
              LET run == tRuns[tRunIdx]
                  r == IF tStage = "row" THEN run.line ELSE p
                  c == IF tStage = "row" THEN p ELSE run.line
                  res == placeBlackPair(tGrid, r, c, tW, tH)
              IN /\ tGrid' = res.grid
                 /\ tLast' = [called |-> TRUE, r |-> r, c |-> c, ok |-> res.ok]
                 /\ IF res.ok
                    THEN /\ tBroke' = TRUE
                         /\ tRunIdx' = tRunIdx + 1
                         /\ tPositions' = {}
                         /\ tpc' = "runs"
                    ELSE /\ tPositions' = tPositions \ {p}
                         /\ UNCHANGED <<tBroke, tRunIdx, tpc>>
    /\ UNCHANGED <<tW, tH, tPass, tStage, tRuns, tBudget, tAdded>>
    /\ UNCHANGED NotTemplate

\* End of a run list: rows are followed by columns, columns by `if (!broke) break`.
T_EndRuns ==
    /\ tpc = "runs"
    /\ tRunIdx > Len(tRuns)
    /\ IF tStage = "row"
       THEN /\ tStage' = "col"
            /\ tRuns' = findRuns(tGrid, tW, tH, "col")
            /\ tRunIdx' = 1
            /\ UNCHANGED <<tpc, tPass>>
       ELSE /\ IF tBroke
               THEN tpc' = "pass" /\ tPass' = tPass + 1
               ELSE tpc' = "scatter_init" /\ UNCHANGED tPass
            /\ UNCHANGED <<tStage, tRuns, tRunIdx>>
    /\ tLast' = NoCall
    /\ UNCHANGED <<tW, tH, tGrid, tBroke, tPositions, tBudget, tAdded>>
    /\ UNCHANGED NotTemplate

\* Phase 2 set-up: scatterBudget = max(0, targetBlack - blackCount)
T_ScatterInit ==
    /\ tpc = "scatter_init"
    /\ LET budget == Max(0, TargetBlack(tW, tH) - BlackCount(tGrid, tW, tH))
       IN /\ tBudget' = budget
          /\ tpc' = IF budget > 0 THEN "scatter" ELSE "done"
    /\ tAdded' = 0
    /\ tLast' = NoCall
    /\ UNCHANGED <<tW, tH, tGrid, tPass, tBroke, tStage, tRuns, tRunIdx, tPositions>>
    /\ UNCHANGED NotTemplate

\* One iteration of the scatter loop.  The candidate list holds the interior
\* cells that were white, in shuffled order; cells already black are skipped
\* and a rejected call leaves the grid as it was, so the grids the loop can
\* pass through are exactly those reached by drawing any interior white cell.
T_ScatterTry ==
    /\ tpc = "scatter"
    /\ tAdded < tBudget
    /\ \E r \in 1..(tH - 2), c \in 1..(tW - 2) :
         /\ tGrid[r][c]
         /\ LET isSame == r = tH - 1 - r /\ c = tW - 1 - c
                res == placeBlackPair(tGrid, r, c, tW, tH)
            IN /\ tGrid' = res.grid
               /\ tLast' = [called |-> TRUE, r |-> r, c |-> c, ok |-> res.ok]
               /\ tAdded' = IF res.ok THEN tAdded + (IF isSame THEN 1 ELSE 2)
                            ELSE tAdded
    /\ UNCHANGED <<tW, tH, tpc, tPass, tBroke, tStage, tRuns, tRunIdx,
                   tPositions, tBudget>>
    /\ UNCHANGED NotTemplate

\* The scatter loop ends when the budget is reached or the list is exhausted.
T_ScatterEnd ==
    /\ tpc = "scatter"
    /\ tpc' = "done"
    /\ tLast' = NoCall
    /\ UNCHANGED <<tW, tH, tGrid, tPass, tBroke, tStage, tRuns, tRunIdx,
                   tPositions, tBudget, tAdded>>
    /\ UNCHANGED NotTemplate

NextTemplate ==
    \/ T_BeginPass
    \/ T_NextRun
    \/ T_TryBreak
    \/ T_EndRuns
    \/ T_ScatterInit
    \/ T_ScatterTry
    \/ T_ScatterEnd

SpecTemplate == InitTemplate /\ [][NextTemplate]_vars

\* ------------------------------------------------------------------------
\* Dictionary (wordlist.ts, getWordsByLength)
\* ------------------------------------------------------------------------
\* A word is the sequence of its letters; Null is the unassigned slot.
Null == <<>>

\* getPlayabilityMap().get(word) ?? 0
getPlayabilityScore(word) ==
    IF \E i \in 1..Len(wordlist) : wordlist[i].word = word
    THEN LET i == CHOOSE k \in 1..Len(wordlist) :
                     /\ wordlist[k].word = word
                     /\ \A j \in (k + 1)..Len(wordlist) : wordlist[j].word # word
         IN wordlist[i].play
    ELSE 0

SeqToSet(q) == {q[i] : i \in 1..Len(q)}

\* new Set(array): the first occurrence of each element, in array order.
Dedup(q) == SelectSeq([i \in 1..Len(q) |->
                         IF \E j \in 1..(i - 1) : q[j] = q[i] THEN Null ELSE q[i]],
                      LAMBDA w : w # Null)

\* Array.prototype.sort by descending playability (stable): element k of the
\* result is the one with exactly k-1 elements ordered before it.
SortByPlayability(q) ==
    LET before(i, j) ==
            \/ getPlayabilityScore(q[i]) > getPlayabilityScore(q[j])
            \/ (getPlayabilityScore(q[i]) = getPlayabilityScore(q[j]) /\ i < j)
        rank(i) == Cardinality({j \in 1..Len(q) : before(j, i)})
    IN [k \in 1..Len(q) |-> q[CHOOSE i \in 1..Len(q) : rank(i) = k - 1]]

MAX_WORD_LENGTH == 15
MAX_PER_LENGTH == 2000

\* getWordsByLength(): the bucket of each length that has words.
getWordsByLength ==
    LET wordsOf(n) == SelectSeq([i \in 1..Len(wordlist) |-> wordlist[i].word],
                                LAMBDA w : Len(w) = n)
        lens == {n \in MIN_SLOT_LENGTH..MAX_WORD_LENGTH : Len(wordsOf(n)) > 0}
    IN [n \in lens |->
          LET sorted == SortByPlayability(wordsOf(n))
          IN IF Len(sorted) > MAX_PER_LENGTH
             THEN SubSeq(sorted, 1, MAX_PER_LENGTH) ELSE sorted]

\* ------------------------------------------------------------------------
\* Slot extraction (fillinGenerator.ts, extractSlots)
\* ------------------------------------------------------------------------
\* The slots of one direction: every run of at least MIN_SLOT_LENGTH whites.
SlotsOfDirection_AnyRun(grid, width, height, direction) ==
    LET runs == findRuns(grid, width, height,
                         IF direction = "across" THEN "row" ELSE "col")
    IN [k \in 1..Len(runs) |->
          [row |-> IF direction = "across" THEN runs[k].line ELSE runs[k].start,
           col |-> IF direction = "across" THEN runs[k].start ELSE runs[k].line,
           direction |-> direction,
           length |-> runs[k].length]]

SlotsOfDirection(grid, width, height, direction) ==
    LET runs == findRuns(grid, width, height,
                         IF direction = "across" THEN "row" ELSE "col")
        long == SelectSeq(runs, LAMBDA run : run.length >= MIN_SLOT_LENGTH)
    IN [k \in 1..Len(long) |->
          [row |-> IF direction = "across" THEN long[k].line ELSE long[k].start,
           col |-> IF direction = "across" THEN long[k].start ELSE long[k].line,
           direction |-> direction,
           length |-> long[k].length]]

\* Cell j of a slot (j counted from 0).
SlotCell(s, j) ==
    IF s.direction = "across" THEN <<s.row, s.col + j>> ELSE <<s.row + j, s.col>>

SlotCells(s) == {SlotCell(s, j) : j \in 0..(s.length - 1)}

\* cellMap.get(`${r},${c}`): the entries registered for a cell, in slot order.
CellEntries(bare, cell) ==
    LET idxs == SelectSeq([i \in 1..Len(bare) |-> i],
                          LAMBDA i : cell \in SlotCells(bare[i]))
    IN [k \in 1..Len(idxs) |->
          [slotIdx |-> idxs[k],
           pos |-> CHOOSE j \in 0..(bare[idxs[k]].length - 1) :
                       SlotCell(bare[idxs[k]], j) = cell,
           dir |-> bare[idxs[k]].direction]]

\* A wiring that stores the slot's own offset as the offset in the other slot.
CrossingsOf_OwnOffset(bare, i) ==
    LET wired(j) ==
            LET e == CellEntries(bare, SlotCell(bare[i], j))
            IN Len(e) = 2 /\ e[1].dir # e[2].dir
        offsets == SelectSeq([k \in 1..bare[i].length |-> k - 1], wired)
    IN [k \in 1..Len(offsets) |->
          LET e == CellEntries(bare, SlotCell(bare[i], offsets[k]))
              me == IF e[1].slotIdx = i THEN e[1] ELSE e[2]
              other == IF e[1].slotIdx = i THEN e[2] ELSE e[1]
          IN [indexInSlot |-> me.pos,
              otherSlotIdx |-> other.slotIdx,
              indexInOtherSlot |-> me.pos]]

\* The crossings pushed to slot i while the cells of cellMap are visited; the
\* cells of a slot are visited in the order of their offset in the slot.
CrossingsOf(bare, i) ==
    LET wired(j) ==
            LET e == CellEntries(bare, SlotCell(bare[i], j))
            IN Len(e) = 2 /\ e[1].dir # e[2].dir
        offsets == SelectSeq([k \in 1..bare[i].length |-> k - 1], wired)
    IN [k \in 1..Len(offsets) |->
          LET e == CellEntries(bare, SlotCell(bare[i], offsets[k]))
              me == IF e[1].slotIdx = i THEN e[1] ELSE e[2]
              other == IF e[1].slotIdx = i THEN e[2] ELSE e[1]
          IN [indexInSlot |-> me.pos,
              otherSlotIdx |-> other.slotIdx,
              indexInOtherSlot |-> other.pos]]

\* An extractSlots that wires the crossings of the across slots only.
extractSlots_AcrossWired(grid, width, height) ==
    LET bare == SlotsOfDirection(grid, width, height, "across")
                  \o SlotsOfDirection(grid, width, height, "down")
    IN [i \in 1..Len(bare) |->
          [row |-> bare[i].row, col |-> bare[i].col,
           direction |-> bare[i].direction, length |-> bare[i].length,
           crossings |-> IF bare[i].direction = "across"
                         THEN CrossingsOf(bare, i) ELSE <<>>]]

extractSlots(grid, width, height) ==
    LET bare == SlotsOfDirection(grid, width, height, "across")
                  \o SlotsOfDirection(grid, width, height, "down")
    IN [i \in 1..Len(bare) |->
          [row |-> bare[i].row, col |-> bare[i].col,
           direction |-> bare[i].direction, length |-> bare[i].length,
           crossings |-> CrossingsOf(bare, i)]]

\* ------------------------------------------------------------------------
\* CSP solver (fillinGenerator.ts, solve and its helpers)
\* ------------------------------------------------------------------------
\* word[pos] with pos counted from 0.
Letter(word, pos) == word[pos + 1]

\* forwardCheck, crossings k.. of the slot: the domains left and the removals.
RECURSIVE ForwardCheckFrom(_, _, _, _, _, _)
ForwardCheckFrom(k, crossings, word, assigned, doms, pruned) ==
    IF k > Len(crossings) THEN [domains |-> doms, pruned |-> pruned]
    ELSE
        LET crossing == crossings[k]
            o == crossing.otherSlotIdx
            requiredLetter == Letter(word, crossing.indexInSlot)
            pos == crossing.indexInOtherSlot
            removed == SelectSeq(doms[o], LAMBDA w : Letter(w, pos) # requiredLetter)
            kept == SelectSeq(doms[o], LAMBDA w : Letter(w, pos) = requiredLetter)
        IN IF assigned[o] # Null
           THEN ForwardCheckFrom(k + 1, crossings, word, assigned, doms, pruned)
           ELSE ForwardCheckFrom(k + 1, crossings, word, assigned,
                    [doms EXCEPT ![o] = kept],
                    IF Len(removed) > 0
                    THEN Append(pruned, [otherSlotIdx |-> o, removed |-> removed])
                    ELSE pruned)

\* A forwardCheck that skips the first crossing of the slot.
forwardCheck_SkipFirst(slotIdx, word, sl, assigned, doms) ==
    ForwardCheckFrom(2, sl[slotIdx].crossings, word, assigned, doms, <<>>)

forwardCheck(slotIdx, word, sl, assigned, doms) ==
    ForwardCheckFrom(1, sl[slotIdx].crossings, word, assigned, doms, <<>>)

\* Set.add of each removed word: a word not in the set goes to its end.
AddAll(domain, removed) ==
    domain \o SelectSeq(Dedup(removed), LAMBDA w : w \notin SeqToSet(domain))

RECURSIVE RestoreFrom(_, _, _)
RestoreFrom(k, pruned, doms) ==
    IF k > Len(pruned) THEN doms
    ELSE RestoreFrom(k + 1, pruned,
             [doms EXCEPT ![pruned[k].otherSlotIdx] =
                              AddAll(doms[pruned[k].otherSlotIdx], pruned[k].removed)])

\* A restoreDomains that loses the last pruned entry.
restoreDomains_DropLast(pruned, doms) ==
    IF Len(pruned) = 0 THEN doms
    ELSE RestoreFrom(1, SubSeq(pruned, 1, Len(pruned) - 1), doms)

restoreDomains(pruned, doms) == RestoreFrom(1, pruned, doms)

\* selectSlot: the loop over the slots from i on, with the best so far.
RECURSIVE SelectFrom(_, _, _, _, _, _, _)
SelectFrom(i, assigned, doms, sl, bestIdx, bestSize, bestCrossings) ==
    IF i > Len(assigned) THEN bestIdx
    ELSE IF assigned[i] # Null
         THEN SelectFrom(i + 1, assigned, doms, sl, bestIdx, bestSize, bestCrossings)
         ELSE LET size == Len(doms[i])
                  cross == Len(sl[i].crossings)
              IN IF bestSize = -1 \/ size < bestSize
                      \/ (size = bestSize /\ cross > bestCrossings)
                 THEN SelectFrom(i + 1, assigned, doms, sl, i, size, cross)
                 ELSE SelectFrom(i + 1, assigned, doms, sl, bestIdx, bestSize,
                                 bestCrossings)

\* A selectSlot that takes the first unassigned slot of the smallest domain.
selectSlot_NoTieBreak(assigned, doms, sl) ==
    LET open == {i \in 1..Len(assigned) : assigned[i] = Null}
        least == {i \in open : \A j \in open : Len(doms[i]) <= Len(doms[j])}
    IN IF open = {} THEN -1 ELSE CHOOSE i \in least : \A j \in least : i <= j

\* -1 when every slot is assigned (bestSize -1 stands for Infinity).
selectSlot(assigned, doms, sl) == SelectFrom(1, assigned, doms, sl, -1, -1, -1)

SHUFFLE_TOP == 30

\* A filter that lets a used word through.
ConsistentCandidates_NoUsed(slotIdx, sl, assigned, doms, used) ==
    SelectSeq(doms[slotIdx], LAMBDA w :
        \A k \in 1..Len(sl[slotIdx].crossings) :
             LET crossing == sl[slotIdx].crossings[k]
                 other == assigned[crossing.otherSlotIdx]
             IN other = Null
                  \/ Letter(w, crossing.indexInSlot)
                       = Letter(other, crossing.indexInOtherSlot))

\* getOrderedCandidates before the shuffle: the domain words that are unused
\* and agree with every assigned crossing.
ConsistentCandidates(slotIdx, sl, assigned, doms, used) ==
    SelectSeq(doms[slotIdx], LAMBDA w :
        /\ w \notin used
        /\ \A k \in 1..Len(sl[slotIdx].crossings) :
             LET crossing == sl[slotIdx].crossings[k]
                 other == assigned[crossing.otherSlotIdx]
             IN other = Null
                  \/ Letter(w, crossing.indexInSlot)
                       = Letter(other, crossing.indexInOtherSlot))

\* getOrderedCandidates: the first min(n, 30) candidates are shuffled (`top`,
\* drawn in any order), the others keep their order (`rest`).
getOrderedCandidates(slotIdx, sl, assigned, doms, used) ==
    LET candidates == ConsistentCandidates(slotIdx, sl, assigned, doms, used)
        shuffleN == Min(Len(candidates), shuffleTop)
    IN [top |-> {candidates[i] : i \in 1..shuffleN},
        rest |-> SubSeq(candidates, shuffleN + 1, Len(candidates))]

\* domains: slots.map((s) => new Set(wordsByLen[s.length] ?? []))
InitialDomains(sl) ==
    [i \in 1..Len(sl) |->
        IF sl[i].length \in DOMAIN getWordsByLength
        THEN Dedup(getWordsByLength[sl[i].length]) ELSE <<>>]

AllNull(sl) == [i \in 1..Len(sl) |-> Null]

Top == stack[Len(stack)]
Pop == SubSeq(stack, 1, Len(stack) - 1)

\* generateFillinSmart up to the call of solve: the slots of the template, the
\* two reasons to skip the template, and the fresh solver state of a restart.
F_Prepare ==
    /\ fpc = "start"
    /\ \E sl \in {extractSlots(fTemplate, fW, fH)} :
         LET allCovered == \A i \in 1..Len(sl) :
                               /\ sl[i].length \in DOMAIN getWordsByLength
                               /\ Len(getWordsByLength[sl[i].length]) > 0
         IN /\ slots' = sl
            /\ assignments' = AllNull(sl)
            /\ domains' = InitialDomains(sl)
            /\ best' = [assignments |-> AllNull(sl), filledCount |-> 0]
            /\ fpc' = IF Len(sl) = 0 \/ ~allCovered THEN "skipped" ELSE "enter"
    /\ bt' = 0
    /\ usedWords' = {}
    /\ stack' = <<>>
    /\ UNCHANGED <<fTemplate, fW, fH, maxBacktracks, shuffleTop, fRet, gResult, gUsed,
                   gProgress, gQueue, fResult, wordlist>>
    /\ UNCHANGED NotFillin

\* solve() from its entry to the start of the candidate loop; depth is the
\* number of calls of solve below this one.
S_Enter ==
    /\ fpc = "enter"
    /\ LET depth == Len(stack)
           idx == selectSlot(assignments, domains, slots)
           cand == getOrderedCandidates(idx, slots, assignments, domains, usedWords)
       IN /\ best' = IF depth > best.filledCount
                     THEN [assignments |-> assignments, filledCount |-> depth]
                     ELSE best
          /\ IF idx = -1
             THEN /\ fRet' = TRUE
                  /\ fpc' = "return"
                  /\ stack' = stack
             ELSE /\ fRet' = fRet
                  /\ fpc' = "loop"
                  /\ stack' = Append(stack,
                         [idx |-> idx, top |-> cand.top, rest |-> cand.rest,
                          word |-> Null, pruned |-> <<>>, before |-> domains])
    /\ UNCHANGED <<fTemplate, fW, fH, maxBacktracks, shuffleTop, slots, assignments, domains,
                   usedWords, bt, gResult, gUsed, gProgress, gQueue, fResult,
                   wordlist>>
    /\ UNCHANGED NotFillin

\* One iteration of `for (const word of candidates)` up to the wipeout test.
S_Try ==
    /\ fpc = "loop"
    /\ Top.top # {} \/ Len(Top.rest) > 0
    /\ \E word \in (IF Top.top # {} THEN Top.top ELSE {Head(Top.rest)}) :
         LET idx == Top.idx
             assigned == [assignments EXCEPT ![idx] = word]
             fc == forwardCheck(idx, word, slots, assigned, domains)
             wipeout == \E k \in 1..Len(fc.pruned) :
                            Len(fc.domains[fc.pruned[k].otherSlotIdx]) = 0
         IN /\ assignments' = assigned
            /\ usedWords' = usedWords \cup {word}
            /\ domains' = fc.domains
            /\ stack' = Append(Pop,
                   [idx |-> idx,
                    top |-> Top.top \ {word},
                    rest |-> IF Top.top # {} THEN Top.rest ELSE Tail(Top.rest),
                    word |-> word, pruned |-> fc.pruned, before |-> domains])
            /\ fpc' = IF wipeout THEN "backtrack" ELSE "enter"
    /\ UNCHANGED <<fTemplate, fW, fH, maxBacktracks, shuffleTop, slots, bt, best, fRet,
                   gResult, gUsed, gProgress, gQueue, fResult, wordlist>>
    /\ UNCHANGED NotFillin

\* The candidate loop ends without a solution: return false.
S_Exhausted ==
    /\ fpc = "loop"
    /\ Top.top = {} /\ Len(Top.rest) = 0
    /\ stack' = Pop
    /\ fRet' = FALSE
    /\ fpc' = "return"
    /\ UNCHANGED <<fTemplate, fW, fH, maxBacktracks, shuffleTop, slots, assignments, domains,
                   usedWords, bt, best, gResult, gUsed, gProgress, gQueue,
                   fResult, wordlist>>
    /\ UNCHANGED NotFillin

\* A call of solve returns to its caller: true is passed up, false makes the
\* caller undo its candidate; the outermost call returns to generateFillinSmart.
S_Return ==
    /\ fpc = "return"
    /\ IF Len(stack) = 0
       THEN /\ fpc' = "solved"
            /\ stack' = stack
       ELSE IF fRet
            THEN /\ fpc' = "return"
                 /\ stack' = Pop
            ELSE /\ fpc' = "backtrack"
                 /\ stack' = stack
    /\ UNCHANGED <<fTemplate, fW, fH, maxBacktracks, shuffleTop, slots, assignments, domains,
                   usedWords, bt, best, fRet, gResult, gUsed, gProgress, gQueue,
                   fResult, wordlist>>
    /\ UNCHANGED NotFillin

\* An undo that never tests the backtrack cap.
S_Backtrack_NoCap ==
    /\ fpc = "backtrack"
    /\ bt' = bt + 1
    /\ assignments' = [assignments EXCEPT ![Top.idx] = Null]
    /\ usedWords' = usedWords \ {Top.word}
    /\ domains' = restoreDomains(Top.pruned, domains)
    /\ stack' = stack
    /\ fRet' = fRet
    /\ fpc' = "loop"
    /\ UNCHANGED <<fTemplate, fW, fH, maxBacktracks, shuffleTop, slots, best, gResult, gUsed,
                   gProgress, gQueue, fResult, wordlist>>
    /\ UNCHANGED NotFillin

\* An undo that leaves the word in usedWords.
S_Backtrack_KeepUsed ==
    /\ fpc = "backtrack"
    /\ bt' = bt + 1
    /\ assignments' = [assignments EXCEPT ![Top.idx] = Null]
    /\ usedWords' = usedWords
    /\ domains' = restoreDomains(Top.pruned, domains)
    /\ IF bt + 1 >= maxBacktracks
       THEN /\ stack' = Pop
            /\ fRet' = FALSE
            /\ fpc' = "return"
       ELSE /\ stack' = stack
            /\ fRet' = fRet
            /\ fpc' = "loop"
    /\ UNCHANGED <<fTemplate, fW, fH, maxBacktracks, shuffleTop, slots, best, gResult, gUsed,
                   gProgress, gQueue, fResult, wordlist>>
    /\ UNCHANGED NotFillin

\* The undo of one candidate and the test of the backtrack cap.
S_Backtrack ==
    /\ fpc = "backtrack"
    /\ bt' = bt + 1
    /\ assignments' = [assignments EXCEPT ![Top.idx] = Null]
    /\ usedWords' = usedWords \ {Top.word}
    /\ domains' = restoreDomains(Top.pruned, domains)
    /\ IF bt + 1 >= maxBacktracks
       THEN /\ stack' = Pop
            /\ fRet' = FALSE
            /\ fpc' = "return"
       ELSE /\ stack' = stack
            /\ fRet' = fRet
            /\ fpc' = "loop"
    /\ UNCHANGED <<fTemplate, fW, fH, maxBacktracks, shuffleTop, slots, best, gResult, gUsed,
                   gProgress, gQueue, fResult, wordlist>>
    /\ UNCHANGED NotFillin

\* ------------------------------------------------------------------------
\* Greedy patch and assembly (fillinGenerator.ts)
\* ------------------------------------------------------------------------
\* generateFillinSmart after solve: the base assignment, and whether there is
\* anything to assemble; greedyPatch starts from a partial base only.
F_AfterSolve ==
    /\ fpc = "solved"
    /\ LET solved == fRet
           baseAssignments == IF solved THEN assignments ELSE best.assignments
           baseFilledCount == IF solved THEN Len(slots) ELSE best.filledCount
       IN /\ gResult' = baseAssignments
          /\ gUsed' = {baseAssignments[i] : i \in 1..Len(baseAssignments)} \ {Null}
          /\ gProgress' = TRUE
          /\ fpc' = IF baseFilledCount > 0
                    THEN (IF solved THEN "assemble" ELSE "gp_while")
                    ELSE "noresult"
    /\ UNCHANGED <<fTemplate, fW, fH, maxBacktracks, shuffleTop, slots, assignments, domains,
                   usedWords, bt, best, stack, fRet, gQueue, fResult, wordlist>>
    /\ UNCHANGED NotFillin

\* A sort that loses the last unfilled slot.
UnfilledSorted_DropLast(result) ==
    LET fixed(i) == Cardinality({k \in 1..Len(slots[i].crossings) :
                                   result[slots[i].crossings[k].otherSlotIdx] # Null})
        unfilled == {i \in 1..Len(result) : result[i] = Null}
        before(i, j) == fixed(i) > fixed(j) \/ (fixed(i) = fixed(j) /\ i < j)
        rank(i) == Cardinality({j \in unfilled : before(j, i)})
    IN [k \in 1..(Cardinality(unfilled) - 1) |-> CHOOSE i \in unfilled : rank(i) = k - 1]

\* The unfilled slots of greedyPatch in the order of
\* unfilled.sort((a, b) => b.fixed - a.fixed), a stable sort.
UnfilledSorted(result) ==
    LET fixed(i) == Cardinality({k \in 1..Len(slots[i].crossings) :
                                   result[slots[i].crossings[k].otherSlotIdx] # Null})
        unfilled == {i \in 1..Len(result) : result[i] = Null}
        before(i, j) == fixed(i) > fixed(j) \/ (fixed(i) = fixed(j) /\ i < j)
        rank(i) == Cardinality({j \in unfilled : before(j, i)})
    IN [k \in 1..Cardinality(unfilled) |-> CHOOSE i \in unfilled : rank(i) = k - 1]

\* while (progress) { progress = false; collect and sort the unfilled slots
GP_Pass ==
    /\ fpc = "gp_while"
    /\ IF gProgress
       THEN /\ gProgress' = FALSE
            /\ gQueue' = UnfilledSorted(gResult)
            /\ fpc' = "gp_for"
       ELSE /\ fpc' = "assemble"
            /\ UNCHANGED <<gProgress, gQueue>>
    /\ UNCHANGED <<fTemplate, fW, fH, maxBacktracks, shuffleTop, slots, assignments, domains,
                   usedWords, bt, best, stack, fRet, gResult, gUsed, fResult,
                   wordlist>>
    /\ UNCHANGED NotFillin

\* word[i] agrees with the letters the filled crossing words fix in the slot.
MatchesPattern(idx, word, result) ==
    \A k \in 1..Len(slots[idx].crossings) :
        LET crossing == slots[idx].crossings[k]
            other == result[crossing.otherSlotIdx]
        IN other = Null
             \/ Letter(other, crossing.indexInOtherSlot)
                  = Letter(word, crossing.indexInSlot)

\* A greedyPatch that does not look at the crossing letters.
GreedyWord_NoPattern(idx, result, used) ==
    LET words == IF slots[idx].length \in DOMAIN getWordsByLength
                 THEN getWordsByLength[slots[idx].length] ELSE <<>>
        fits == SelectSeq(words, LAMBDA w : w \notin used)
    IN IF Len(fits) > 0 THEN Head(fits) ELSE Null

\* A greedyPatch that does not look at the words already used.
GreedyWord_NoUsed(idx, result, used) ==
    LET words == IF slots[idx].length \in DOMAIN getWordsByLength
                 THEN getWordsByLength[slots[idx].length] ELSE <<>>
        fits == SelectSeq(words, LAMBDA w : MatchesPattern(idx, w, result))
    IN IF Len(fits) > 0 THEN Head(fits) ELSE Null

\* The first word of the slot's bucket that is unused and matches the pattern,
\* Null when there is none (or no bucket).
GreedyWord(idx, result, used) ==
    LET words == IF slots[idx].length \in DOMAIN getWordsByLength
                 THEN getWordsByLength[slots[idx].length] ELSE <<>>
        fits == SelectSeq(words, LAMBDA w :
                    w \notin used /\ MatchesPattern(idx, w, result))
    IN IF Len(fits) > 0 THEN Head(fits) ELSE Null

\* One iteration of `for (const { idx } of unfilled)`.
GP_Slot ==
    /\ fpc = "gp_for"
    /\ Len(gQueue) > 0
    /\ LET idx == Head(gQueue)
           word == GreedyWord(idx, gResult, gUsed)
       IN IF gResult[idx] = Null /\ word # Null
          THEN /\ gResult' = [gResult EXCEPT ![idx] = word]
               /\ gUsed' = gUsed \cup {word}
               /\ gProgress' = TRUE
          ELSE UNCHANGED <<gResult, gUsed, gProgress>>
    /\ gQueue' = Tail(gQueue)
    /\ UNCHANGED <<fTemplate, fW, fH, maxBacktracks, shuffleTop, slots, assignments, domains,
                   usedWords, bt, best, stack, fpc, fRet, fResult, wordlist>>
    /\ UNCHANGED NotFillin

\* The end of the for loop: back to the test of `progress`.
GP_EndPass ==
    /\ fpc = "gp_for"
    /\ Len(gQueue) = 0
    /\ fpc' = "gp_while"
    /\ UNCHANGED <<fTemplate, fW, fH, maxBacktracks, shuffleTop, slots, assignments, domains,
                   usedWords, bt, best, stack, fRet, gResult, gUsed, gProgress,
                   gQueue, fResult, wordlist>>
    /\ UNCHANGED NotFillin

\* A black (or unfilled) cell of a result grid; the other cells hold a letter.
NullCell == "null"

\* starts.get(`${r},${c}`)?.across / .down: the last placed word that starts
\* at the cell in the direction (a later one overwrites an earlier one), as a
\* sequence of at most one word.
StartAt(placed, r, c, direction) ==
    LET hits == SelectSeq(placed, LAMBDA w :
                    w.row = r /\ w.col = c /\ w.direction = direction)
    IN IF Len(hits) = 0 THEN <<>> ELSE <<hits[Len(hits)]>>

\* The numbering scan that counts words instead of start cells.
NumberCell_PerWord(st, placed, r, c) ==
    LET a == StartAt(placed, r, c, "across")
        d == StartAt(placed, r, c, "down")
        numbered(q, n) == [k \in 1..Len(q) |->
                             [word |-> q[k].word, row |-> r, col |-> c,
                              direction |-> q[k].direction, clueNumber |-> n]]
    IN [num |-> st.num + Len(a) + Len(d),
        words |-> st.words \o numbered(a, st.num) \o numbered(d, st.num + Len(a))]

\* The body of the numbering scan at cell (r, c): st holds the counter and
\* the words pushed so far.  `const e = starts.get(..); if (!e) continue;
\* const n = num++; if (e.across) push; if (e.down) push`.
NumberCell(st, placed, r, c) ==
    LET a == StartAt(placed, r, c, "across")
        d == StartAt(placed, r, c, "down")
        numbered(q) == [k \in 1..Len(q) |->
                          [word |-> q[k].word, row |-> r, col |-> c,
                           direction |-> q[k].direction, clueNumber |-> st.num]]
    IN IF Len(a) = 0 /\ Len(d) = 0 THEN st
       ELSE [num |-> st.num + 1, words |-> st.words \o numbered(a) \o numbered(d)]

\* The scan after the cells (0,0) .. (r,c) in reading order.
RECURSIVE NumberScan(_, _, _, _)
NumberScan(placed, width, r, c) ==
    IF r < 0 THEN [num |-> 1, words |-> <<>>]
    ELSE IF c < 0 THEN NumberScan(placed, width, r - 1, width - 1)
    ELSE NumberCell(NumberScan(placed, width, r, c - 1), placed, r, c)

\* for (r < height) for (c < width) { ... }: the numbered words.
NumberWords(placed, width, height) ==
    NumberScan(placed, width, height - 1, width - 1).words

\* totalPlay over the first k words.
RECURSIVE TotalPlay(_, _)
TotalPlay(words, k) ==
    IF k = 0 THEN 0 ELSE TotalPlay(words, k - 1) + getPlayabilityScore(words[k].word)

\* Math.round of the fraction num / den, num >= 0 and den > 0.
Round(num, den) == (2 * num + den) \div (2 * den)

avgPlayability(words) ==
    IF Len(words) > 0 THEN Round(TotalPlay(words, Len(words)), Len(words)) ELSE 0

\* The marker of a white cell no word has been written to.
EmptyWhite == ""

\* The grid of assembleResult after the loop over the slots: "" on white
\* cells and null on black ones, then slot i written before slot i+1, so a
\* cell holds the letter of the last filled slot through it.
WrittenGrid(template, width, height, sl, assigned) ==
    LET cell(r, c) ==
            LET writers == {i \in 1..Len(sl) :
                              assigned[i] # Null /\ <<r, c>> \in SlotCells(sl[i])}
            IN IF writers = {}
               THEN (IF template[r][c] THEN EmptyWhite ELSE NullCell)
               ELSE LET i == CHOOSE x \in writers : \A y \in writers : y <= x
                        j == CHOOSE y \in 0..(sl[i].length - 1) :
                                 SlotCell(sl[i], y) = <<r, c>>
                    IN Letter(assigned[i], j)
    IN [r \in 0..(height - 1) |-> [c \in 0..(width - 1) |-> cell(r, c)]]

\* if (grid[r][c] === "") grid[r][c] = null, for every cell.
BlackenEmpty_Keep(grid, width, height) ==
    [r \in 0..(height - 1) |-> [c \in 0..(width - 1) |-> grid[r][c]]]

BlackenEmpty(grid, width, height) ==
    [r \in 0..(height - 1) |->
        [c \in 0..(width - 1) |->
            IF grid[r][c] = EmptyWhite THEN NullCell ELSE grid[r][c]]]

\* assembleResult: the letter grid, the placed words in slot order, their
\* numbering and their average playability.
assembleResult(template, width, height, sl, assigned) ==
    LET filled == SelectSeq([i \in 1..Len(sl) |-> i], LAMBDA i : assigned[i] # Null)
        placed == [k \in 1..Len(filled) |->
                     [word |-> assigned[filled[k]], row |-> sl[filled[k]].row,
                      col |-> sl[filled[k]].col,
                      direction |-> sl[filled[k]].direction]]
    IN [grid |-> BlackenEmpty(WrittenGrid(template, width, height, sl, assigned),
                              width, height),
        words |-> NumberWords(placed, width, height),
        width |-> width,
        height |-> height,
        avgPlayability |-> avgPlayability(placed),
        puzzleType |-> "fillin"]

\* const result = assembleResult(template, GRID_SIZE, GRID_SIZE, slots, patched)
A_Assemble ==
    /\ fpc = "assemble"
    /\ fResult' = assembleResult(fTemplate, fW, fH, slots, gResult)
    /\ fpc' = "done"
    /\ UNCHANGED <<fTemplate, fW, fH, maxBacktracks, shuffleTop, slots, assignments, domains,
                   usedWords, bt, best, stack, fRet, gResult, gUsed, gProgress,
                   gQueue, wordlist>>
    /\ UNCHANGED NotFillin

\* ------------------------------------------------------------------------
\* Classic grid helpers (crosswordGenerator.ts)
\* ------------------------------------------------------------------------
\* Side of the working grid (80, 50, 40, 30 and 30 in the source), scaled down.
GridSize == 7

makeGrid(size) == [r \in 0..(size - 1) |-> [c \in 0..(size - 1) |-> NullCell]]

\* Cell i (from 0) of a word placed at (row, col).
WordCell(row, col, direction, i) ==
    IF direction = "across" THEN <<row, col + i>> ELSE <<row + i, col>>

\* placeWord: a write to a column outside the row's indices creates a property
\* no loop or read of the program ever visits, so it is left out of the grid.
placeWord(grid, word, row, col, direction) ==
    [r \in DOMAIN grid |-> [c \in DOMAIN grid[r] |->
        LET i == IF direction = "across" THEN c - col ELSE r - row
            onLine == IF direction = "across" THEN r = row ELSE c = col
        IN IF onLine /\ i \in 0..(Len(word) - 1) THEN word[i + 1] ELSE grid[r][c]]]

SetMin(S) == CHOOSE x \in S : \A y \in S : x <= y
SetMax(S) == CHOOSE x \in S : \A y \in S : x >= y

getBoundingBox(grid) ==
    LET rows == {r \in DOMAIN grid : \E c \in DOMAIN grid[r] : grid[r][c] # NullCell}
        cols == {c \in UNION {DOMAIN grid[r] : r \in DOMAIN grid} :
                    \E r \in DOMAIN grid : grid[r][c] # NullCell}
    IN IF rows = {}
       THEN [minRow |-> 0, maxRow |-> 0, minCol |-> 0, maxCol |-> 0,
             width |-> 0, height |-> 0]
       ELSE [minRow |-> SetMin(rows), maxRow |-> SetMax(rows),
             minCol |-> SetMin(cols), maxCol |-> SetMax(cols),
             width |-> SetMax(cols) - SetMin(cols) + 1,
             height |-> SetMax(rows) - SetMin(rows) + 1]

\* calculateDensity is filled / (width * height); this is its numerator.
Filled(grid, bounds) ==
    IF bounds.width = 0 \/ bounds.height = 0 THEN 0
    ELSE Cardinality({rc \in (bounds.minRow..bounds.maxRow) \X (bounds.minCol..bounds.maxCol) :
                        grid[rc[1]][rc[2]] # NullCell})

\* The count that starts at the word's second cell.
countIntersections_SkipFirst(grid, word, row, col, direction) ==
    Cardinality({i \in 1..(Len(word) - 1) :
        LET rc == WordCell(row, col, direction, i)
        IN grid[rc[1]][rc[2]] = word[i + 1]})

countIntersections(grid, word, row, col, direction) ==
    Cardinality({i \in 0..(Len(word) - 1) :
        LET rc == WordCell(row, col, direction, i)
        IN grid[rc[1]][rc[2]] = word[i + 1]})

\* getPerpendicularWord: the run through (r, c) across the word's direction
\* once `letter` is there; Null when it is the letter alone.
getPerpendicularWord(grid, gridSize, r, c, letter, wordDirection) ==
    LET own == IF wordDirection = "across" THEN r ELSE c
        at(p) == IF wordDirection = "across" THEN grid[p][c] ELSE grid[r][p]
        start == SetMin({p \in 0..own : \A q \in p..(own - 1) : at(q) # NullCell})
        end == SetMax({p \in own..(gridSize - 1) :
                          \A q \in (own + 1)..p : at(q) # NullCell})
    IN IF end - start + 1 <= 1 THEN Null
       ELSE [k \in 1..(end - start + 1) |->
                IF start + k - 1 = own THEN letter ELSE at(start + k - 1)]

\* An isValidPlacement that accepts an occupied cell whatever letter it holds.
isValidPlacement_NoCellMatch(grid, gridSize, word, row, col, direction, dictionary) ==
    LET len == Len(word)
        cell(i) == WordCell(row, col, direction, i)
        at(i) == grid[cell(i)[1]][cell(i)[2]]
        isEmpty == \A r \in DOMAIN grid : \A c \in DOMAIN grid[r] : grid[r][c] = NullCell
    IN \* bounds
       /\ IF direction = "across"
          THEN row >= 0 /\ row < gridSize /\ col >= 0 /\ col + len <= gridSize
          ELSE row >= 0 /\ row + len <= gridSize /\ col >= 0 /\ col < gridSize
       \* the cell before the word
       /\ IF direction = "across"
          THEN ~(col > 0 /\ grid[row][col - 1] # NullCell)
          ELSE ~(row > 0 /\ grid[row - 1][col] # NullCell)
       \* the cell after the word
       /\ IF direction = "across"
          THEN ~(col + len < gridSize /\ grid[row][col + len] # NullCell)
          ELSE ~(row + len < gridSize /\ grid[row + len][col] # NullCell)
       \* every cell: the same letter, or empty with a valid perpendicular run
       /\ \A i \in 0..(len - 1) :
            IF at(i) # NullCell THEN TRUE
            ELSE LET perpWord == getPerpendicularWord(grid, gridSize, cell(i)[1],
                                     cell(i)[2], word[i + 1], direction)
                 IN perpWord = Null \/ perpWord \in dictionary
       /\ (\E i \in 0..(len - 1) : at(i) # NullCell) \/ isEmpty

isValidPlacement(grid, gridSize, word, row, col, direction, dictionary) ==
    LET len == Len(word)
        cell(i) == WordCell(row, col, direction, i)
        at(i) == grid[cell(i)[1]][cell(i)[2]]
        isEmpty == \A r \in DOMAIN grid : \A c \in DOMAIN grid[r] : grid[r][c] = NullCell
    IN \* bounds
       /\ IF direction = "across"
          THEN row >= 0 /\ row < gridSize /\ col >= 0 /\ col + len <= gridSize
          ELSE row >= 0 /\ row + len <= gridSize /\ col >= 0 /\ col < gridSize
       \* the cell before the word
       /\ IF direction = "across"
          THEN ~(col > 0 /\ grid[row][col - 1] # NullCell)
          ELSE ~(row > 0 /\ grid[row - 1][col] # NullCell)
       \* the cell after the word
       /\ IF direction = "across"
          THEN ~(col + len < gridSize /\ grid[row][col + len] # NullCell)
          ELSE ~(row + len < gridSize /\ grid[row + len][col] # NullCell)
       \* every cell: the same letter, or empty with a valid perpendicular run
       /\ \A i \in 0..(len - 1) :
            IF at(i) # NullCell THEN at(i) = word[i + 1]
            ELSE LET perpWord == getPerpendicularWord(grid, gridSize, cell(i)[1],
                                     cell(i)[2], word[i + 1], direction)
                 IN perpWord = Null \/ perpWord \in dictionary
       /\ (\E i \in 0..(len - 1) : at(i) # NullCell) \/ isEmpty

\* A findPlacements that takes the offset in the placed word for the offset
\* in the new word and the other way round.
findPlacements_SwappedOffsets(grid, gridSize, placed, word, dictionary) ==
    LET W == Len(word)
        E == SetMax({0} \cup {Len(placed[p].word) : p \in 1..Len(placed)})
        existing(k) == placed[((k - 1) \div (E * W)) + 1]
        ei(k) == ((k - 1) \div W) % E
        wi(k) == (k - 1) % W
        newDirection(k) == IF existing(k).direction = "across" THEN "down" ELSE "across"
        row(k) == IF existing(k).direction = "across"
                  THEN existing(k).row - ei(k) ELSE existing(k).row + wi(k)
        col(k) == IF existing(k).direction = "across"
                  THEN existing(k).col + wi(k) ELSE existing(k).col - ei(k)
        ok(k) == /\ ei(k) < Len(existing(k).word)
                 /\ existing(k).word[ei(k) + 1] = word[wi(k) + 1]
                 /\ isValidPlacement(grid, gridSize, word, row(k), col(k),
                                     newDirection(k), dictionary)
        placement(k) ==
            [row |-> row(k), col |-> col(k), direction |-> newDirection(k),
             intersections |-> countIntersections(grid, word, row(k), col(k),
                                                  newDirection(k))]
        collect(hits) == [j \in 1..Len(hits) |-> placement(hits[j])]
    IN collect(SelectSeq([k \in 1..(Len(placed) * E * W) |-> k], ok))

\* findPlacements: the valid crossings of `word` with each placed word, in the
\* order of the loops over existing, ei and wi (k enumerates the triples).
findPlacements(grid, gridSize, placed, word, dictionary) ==
    LET W == Len(word)
        E == SetMax({0} \cup {Len(placed[p].word) : p \in 1..Len(placed)})
        existing(k) == placed[((k - 1) \div (E * W)) + 1]
        ei(k) == ((k - 1) \div W) % E
        wi(k) == (k - 1) % W
        newDirection(k) == IF existing(k).direction = "across" THEN "down" ELSE "across"
        row(k) == IF existing(k).direction = "across"
                  THEN existing(k).row - wi(k) ELSE existing(k).row + ei(k)
        col(k) == IF existing(k).direction = "across"
                  THEN existing(k).col + ei(k) ELSE existing(k).col - wi(k)
        ok(k) == /\ ei(k) < Len(existing(k).word)
                 /\ existing(k).word[ei(k) + 1] = word[wi(k) + 1]
                 /\ isValidPlacement(grid, gridSize, word, row(k), col(k),
                                     newDirection(k), dictionary)
        placement(k) ==
            [row |-> row(k), col |-> col(k), direction |-> newDirection(k),
             intersections |-> countIntersections(grid, word, row(k), col(k),
                                                  newDirection(k))]
        collect(hits) == [j \in 1..Len(hits) |-> placement(hits[j])]
    IN collect(SelectSeq([k \in 1..(Len(placed) * E * W) |-> k], ok))

\* ------------------------------------------------------------------------
\* Candidate scoring of the classic strategies
\* ------------------------------------------------------------------------
Abs(x) == IF x < 0 THEN -x ELSE x

\* The score a loop gives candidate c of `word`: A + K * filled / area, kept
\* as its parts.  Terms that are the same for every candidate of one word
\* (the playability logarithms) do not change the order and are left out;
\* "center" is twice the score of findPlacements, the others are the
\* re-scorings of compact, dense (seed, grow, final), fitted and smart.
ScoreParts(kind, gridSize, word, c, currentBounds, newBounds, filled) ==
    LET newArea == newBounds.width * newBounds.height
        rawArea == currentBounds.width * currentBounds.height
        currentArea == IF kind = "compact" /\ rawArea = 0 THEN 1 ELSE rawArea
        expansion == newArea - currentArea
        withinBounds ==
            /\ c.row >= currentBounds.minRow
            /\ c.col >= currentBounds.minCol
            /\ IF c.direction = "across"
               THEN c.col + Len(word) - 1 <= currentBounds.maxCol
               ELSE c.row + Len(word) - 1 <= currentBounds.maxRow
        mid2Row == 2 * c.row + (IF c.direction = "down" THEN Len(word) ELSE 0)
        mid2Col == 2 * c.col + (IF c.direction = "across" THEN Len(word) ELSE 0)
        I == c.intersections
        A == CASE kind = "center"  -> 20 * I - (Abs(mid2Row - gridSize) + Abs(mid2Col - gridSize))
               [] kind = "compact" -> 5 * I - 3 * expansion
               [] kind = "seed"    -> 15 * I - 5 * expansion
               [] kind = "grow"    -> 10 * I - 4 * expansion
               [] kind = "final"   -> 10 * I - 5 * expansion
               [] kind = "fitted"  -> 8 * I + (IF withinBounds THEN 15 ELSE 0) - 4 * expansion
               [] kind = "refit"   -> 8 * I - 4 * expansion
        K == CASE kind = "compact" -> 20
               [] kind = "grow"    -> 30
               [] kind \in {"fitted", "refit"} -> 25
               [] OTHER -> 0
    IN [A |-> A, K |-> K, filled |-> filled,
        area |-> IF newArea = 0 THEN 1 ELSE newArea,
        I |-> I, expansion |-> expansion,
        bonus |-> kind = "fitted" /\ withinBounds,
        ok |-> CASE kind = "grow" -> I >= 2
                 [] kind = "final" -> expansion <= 20
                 [] OTHER -> TRUE]

ScoreOf(kind, grid, gridSize, word, c) ==
    LET onTestGrid(testGrid) ==
            LET withBounds(newBounds) ==
                    ScoreParts(kind, gridSize, word, c, getBoundingBox(grid),
                               newBounds, Filled(testGrid, newBounds))
            IN withBounds(getBoundingBox(testGrid))
    IN onTestGrid(placeWord(grid, word, c.row, c.col, c.direction))

\* s1 scores more than s2.
Greater(s1, s2) ==
    (s1.A * s1.area + s1.K * s1.filled) * s2.area
        > (s2.A * s2.area + s2.K * s2.filled) * s1.area

\* The two scores are computed from the same numbers, hence the same value.
SameParts(s1, s2) ==
    /\ s1.I = s2.I /\ s1.expansion = s2.expansion /\ s1.bonus = s2.bonus
    /\ s1.filled * s2.area = s2.filled * s1.area

\* The candidates `candidates.sort((a, b) => b.score - a.score)[0]` can be:
\* admitted, of the greatest score, and the first of that score (the sort is
\* stable).  Scores with a density term that are equal in exact arithmetic but
\* computed from different numbers may round apart, either way.  (Appending
\* the empty sequence makes the scores an explicit sequence, each score
\* computed once, as c.score is in the source.)
BestIndices(kind, grid, gridSize, word, cands) ==
    LET first(score) ==
            LET admitted(valid) ==
                    {j \in valid :
                       /\ \A i \in valid : ~Greater(score[i], score[j])
                       /\ \A i \in valid : (i < j /\ ~Greater(score[j], score[i]))
                             => (score[j].K # 0 /\ ~SameParts(score[i], score[j]))}
            IN admitted({j \in 1..Len(cands) : score[j].ok})
    IN first([j \in 1..Len(cands) |-> ScoreOf(kind, grid, gridSize, word, cands[j])]
                \o <<>>)

\* ------------------------------------------------------------------------
\* Word orders of the classic strategies
\* ------------------------------------------------------------------------
\* [...q].sort((a, b) => key(b) - key(a)): a stable sort, greatest key first.
SortDesc(q, key(_)) ==
    LET before(i, j) == key(q[i]) > key(q[j]) \/ (key(q[i]) = key(q[j]) /\ i < j)
        rank(i) == Cardinality({j \in 1..Len(q) : before(j, i)})
    IN [k \in 1..Len(q) |-> q[CHOOSE i \in 1..Len(q) : rank(i) = k - 1]]

\* sharedLetterScore: a letter of a counts while b still has a copy of it left.
sharedLetterScore(a, b) ==
    Cardinality({i \in 1..Len(a) :
        Cardinality({k \in 1..i : a[k] = a[i]})
            <= Cardinality({k \in 1..Len(b) : b[k] = a[i]})})

\* selectSeedWords, as indices into words: the seedCount entries sharing most
\* letters with the others.
selectSeedWords(words, seedCount) ==
    LET total(i) == Cardinality({jk \in (1..Len(words)) \X (1..Len(words[i])) :
                        /\ jk[1] # i
                        /\ jk[2] <= sharedLetterScore(words[i], words[jk[1]])})
        byScore == SortDesc([i \in 1..Len(words) |-> i], total)
    IN SubSeq(byScore, 1, Min(seedCount, Len(words)))

SEED_COUNT == 6

\* The orders in which a strategy can visit the input: longest first (stable);
\* dense visits its seeds, longest first; smart shuffles and sorts with a
\* randomised comparator that only the lengths decide, so words of one length
\* come in any order.
VisitOrders(alg, words) ==
    LET n == Len(words)
        seedIdx == selectSeedWords(words, SEED_COUNT)
        seeds == [k \in 1..Len(seedIdx) |-> words[seedIdx[k]]]
    IN CASE alg = "dense" -> {SortDesc(seeds, Len)}
         [] alg = "smart" ->
              {[k \in 1..n |-> words[f[k]]] :
                 f \in {g \in [1..n -> 1..n] :
                          /\ \A i, j \in 1..n : i # j => g[i] # g[j]
                          /\ \A i \in 1..(n - 1) : Len(words[g[i]]) >= Len(words[g[i + 1]])}}
         [] OTHER -> {SortDesc(words, Len)}

\* dense: the words that are no seeds, longest first.
SortedRemaining(words) ==
    LET seedIdx == selectSeedWords(words, SEED_COUNT)
        rest == SelectSeq([i \in 1..Len(words) |-> i],
                          LAMBDA i : \A k \in 1..Len(seedIdx) : seedIdx[k] # i)
    IN SortDesc([k \in 1..Len(rest) |-> words[rest[k]]], Len)

GridWord(word, row, col, direction) ==
    [word |-> word, row |-> row, col |-> col, direction |-> direction]

getValidWords == {wordlist[i].word : i \in 1..Len(wordlist)}

\* The start of every strategy: the visit order, then the first word placed
\* across the middle of the grid without validation.  With no word at all
\* `first` is undefined and reading first.word throws a TypeError.
C_Seed ==
    /\ cpc = "start"
    /\ \E sorted \in VisitOrders(cAlg, cWords) :
         IF Len(sorted) = 0
         THEN /\ cpc' = "threw"
              /\ UNCHANGED <<cGrid, cPlaced, cQueue, cUnplaced>>
         ELSE LET first == sorted[1]
                  centerRow == GridSize \div 2
                  centerCol == (GridSize - Len(first)) \div 2
              IN /\ cGrid' = placeWord(makeGrid(GridSize), first, centerRow,
                                       centerCol, "across")
                 /\ cPlaced' = <<GridWord(first, centerRow, centerCol, "across")>>
                 /\ cQueue' = Tail(sorted)
                 /\ cUnplaced' = IF cAlg = "dense" THEN SortedRemaining(cWords) ELSE <<>>
                 /\ cpc' = IF cAlg = "dense" THEN "seeds" ELSE "main"
    /\ UNCHANGED <<cTag, cAlg, cWords, cPass, cBounds, cSet, cScan, cAttempt, cBest,
                   cResult, wordlist>>
    /\ UNCHANGED NotClassic

\* The scoring a loop of a strategy applies.
ScoreKind(alg, pc) ==
    CASE alg = "original" -> "center"
      [] alg = "compact" -> "compact"
      [] alg = "dense" -> (CASE pc = "seeds" -> "seed" [] pc = "grow" -> "grow"
                             [] OTHER -> "final")
      [] OTHER -> (IF pc = "main" THEN "fitted" ELSE "refit")

\* One iteration of a placement loop (main loop, retry pass, dense's seed, grow
\* and final loops): the best candidate of the next word is placed; a word
\* with no candidate is kept for later by the loops that retry and dropped by
\* dense's seed and final loops.
C_Step ==
    /\ cpc \in {"main", "retry", "seeds", "grow", "final"}
    /\ Len(cQueue) > 0
    /\ \E cands \in {findPlacements(cGrid, GridSize, cPlaced, Head(cQueue),
                                     getValidWords)} :
       \E bestIdx \in {BestIndices(ScoreKind(cAlg, cpc), cGrid, GridSize,
                                   Head(cQueue), cands)} :
          IF bestIdx = {}
          THEN /\ cUnplaced' = IF cpc \in {"main", "retry", "grow"}
                               THEN Append(cUnplaced, Head(cQueue)) ELSE cUnplaced
               /\ UNCHANGED <<cGrid, cPlaced>>
          ELSE \E j \in bestIdx :
                 /\ cGrid' = placeWord(cGrid, Head(cQueue), cands[j].row,
                                       cands[j].col, cands[j].direction)
                 /\ cPlaced' = Append(cPlaced, GridWord(Head(cQueue), cands[j].row,
                                          cands[j].col, cands[j].direction))
                 /\ cUnplaced' = cUnplaced
    /\ cQueue' = Tail(cQueue)
    /\ UNCHANGED <<cTag, cAlg, cWords, cPass, cpc, cBounds, cSet, cScan, cAttempt, cBest,
                   cResult, wordlist>>
    /\ UNCHANGED NotClassic

\* for (let pass = 0; pass < 3; pass++): 3 passes in original, 2 elsewhere.
RetryPasses(alg) == IF alg = "original" THEN 3 ELSE 2

\* The end of a placement loop and what follows it: the retry passes over the
\* unplaced words (ended early by a pass that leaves none), dense's grow and
\* final loops, the gap filling of fitted and smart, or finalize.
C_PhaseEnd ==
    /\ cpc \in {"main", "retry", "seeds", "grow", "final"}
    /\ Len(cQueue) = 0
    /\ LET retryOver == cpc = "retry"
                          /\ (Len(cUnplaced) = 0 \/ cPass + 1 >= RetryPasses(cAlg))
           again == cpc = "main" \/ (cpc = "retry" /\ ~retryOver)
                      \/ cpc \in {"seeds", "grow"}
       IN /\ cpc' = CASE cpc = "main" -> "retry"
                      [] cpc = "seeds" -> "grow"
                      [] cpc = "grow" -> "final"
                      [] cpc = "final" -> "finalize"
                      [] cpc = "retry" ->
                           IF ~retryOver THEN "retry"
                           ELSE IF cAlg \in {"fitted", "smart"} THEN "gaprows"
                           ELSE "finalize"
          /\ cPass' = IF cpc = "retry" /\ ~retryOver THEN cPass + 1 ELSE 0
          /\ cQueue' = IF again THEN cUnplaced ELSE <<>>
          /\ cUnplaced' = IF again THEN <<>> ELSE cUnplaced
          /\ IF retryOver /\ cAlg \in {"fitted", "smart"}
             THEN /\ cBounds' = getBoundingBox(cGrid)
                  /\ cSet' = {cPlaced[i].word : i \in 1..Len(cPlaced)}
                  /\ cScan' = getBoundingBox(cGrid).minRow
             ELSE UNCHANGED <<cBounds, cSet, cScan>>
    /\ UNCHANGED <<cTag, cAlg, cWords, cGrid, cPlaced, cAttempt, cBest, cResult, wordlist>>
    /\ UNCHANGED NotClassic

\* A findBestFiller that does not ask isValidPlacement.
\* findBestFiller: of the first 50 list words of the length that are unused,
\* match the pattern and are a valid placement, the most playable one (the
\* first of them in list order); Null when there is none.
findBestFiller(allWords, placedWordSet, pattern, len, grid, gridSize, row, col, direction, dict) ==
    LET mostPlayable(candidates) ==
            IF Len(candidates) = 0 THEN Null
            ELSE SortDesc(candidates, getPlayabilityScore)[1]
        first50(fits) == mostPlayable(SubSeq(fits, 1, Min(Len(fits), 50)))
    IN first50(SelectSeq(allWords, LAMBDA w :
          /\ Len(w) = len
          /\ w \notin placedWordSet
          /\ \A i \in 1..len : pattern[i] = NullCell \/ pattern[i] = w[i]
          /\ isValidPlacement(grid, gridSize, w, row, col, direction, dict)))

\* The word list gap filling scans: parseWordlist() in fitted, the same sorted
\* by playability in smart.
FillerWords(alg) ==
    LET allWords == [i \in 1..Len(wordlist) |-> wordlist[i].word]
    IN IF alg = "smart" THEN SortDesc(allWords, getPlayabilityScore) ELSE allWords

\* The scan body accepting a run with a single known letter.
GapCell_OneKnown(st, alg, bounds, direction, r, c) ==
    LET before == IF direction = "across" THEN <<r, c - 1>> ELSE <<r - 1, c>>
        pos == IF direction = "across" THEN c ELSE r
        last == IF direction = "across" THEN bounds.maxCol ELSE bounds.maxRow
        at(i) == LET rc == WordCell(r, c, direction, i) IN st.grid[rc[1]][rc[2]]
        pattern == [k \in 1..(last - pos + 1) |-> at(k - 1)]
        place(word) ==
            [grid |-> placeWord(st.grid, word, r, c, direction),
             placed |-> Append(st.placed, GridWord(word, r, c, direction)),
             set |-> st.set \cup {word}]
        fill(filler) ==
            LET lens == {len \in 3..Min(15, Len(pattern)) :
                            /\ ~(pos + len < GridSize /\ at(len) # NullCell)
                            /\ Cardinality({i \in 1..len : pattern[i] # NullCell}) >= 1
                            /\ filler[len] # Null
                            /\ (alg = "smart" =>
                                   getPlayabilityScore(filler[len]) >= 100)}
            IN IF lens = {} THEN st ELSE place(filler[SetMin(lens)])
    IN IF st.grid[r][c] # NullCell THEN st
       ELSE IF pos > 0 /\ st.grid[before[1]][before[2]] # NullCell THEN st
       ELSE fill([len \in 3..Min(15, Len(pattern)) |->
                    findBestFiller(FillerWords(alg), st.set, pattern, len, st.grid,
                                   GridSize, r, c, direction, getValidWords)])

\* The body of the gap-filling scan at cell (r, c): st holds grid, placed and
\* placedWordSet.  The cell and the one before it must be empty; the pattern
\* runs to the edge of bounds; the shortest length from 3 up with an empty
\* cell behind it, two known letters and a filler (in smart one of
\* playability 100 or more) gets that filler.
GapCell(st, alg, bounds, direction, r, c) ==
    LET before == IF direction = "across" THEN <<r, c - 1>> ELSE <<r - 1, c>>
        pos == IF direction = "across" THEN c ELSE r
        last == IF direction = "across" THEN bounds.maxCol ELSE bounds.maxRow
        at(i) == LET rc == WordCell(r, c, direction, i) IN st.grid[rc[1]][rc[2]]
        pattern == [k \in 1..(last - pos + 1) |-> at(k - 1)]
        place(word) ==
            [grid |-> placeWord(st.grid, word, r, c, direction),
             placed |-> Append(st.placed, GridWord(word, r, c, direction)),
             set |-> st.set \cup {word}]
        fill(filler) ==
            LET lens == {len \in 3..Min(15, Len(pattern)) :
                            /\ ~(pos + len < GridSize /\ at(len) # NullCell)
                            /\ Cardinality({i \in 1..len : pattern[i] # NullCell}) >= 2
                            /\ filler[len] # Null
                            /\ (alg = "smart" =>
                                   getPlayabilityScore(filler[len]) >= 100)}
            IN IF lens = {} THEN st ELSE place(filler[SetMin(lens)])
    IN IF st.grid[r][c] # NullCell THEN st
       ELSE IF pos > 0 /\ st.grid[before[1]][before[2]] # NullCell THEN st
       ELSE fill([len \in 3..Min(15, Len(pattern)) |->
                    findBestFiller(FillerWords(alg), st.set, pattern, len, st.grid,
                                   GridSize, r, c, direction, getValidWords)])

\* The scan of one row (direction across) or column (down) up to position p.
RECURSIVE GapLine(_, _, _, _, _, _)
GapLine(st, alg, bounds, direction, line, p) ==
    LET first == IF direction = "across" THEN bounds.minCol ELSE bounds.minRow
        cell(prev) == GapCell(prev, alg, bounds, direction,
                              IF direction = "across" THEN line ELSE p,
                              IF direction = "across" THEN p ELSE line)
    IN IF p < first THEN st
       ELSE cell(GapLine(st, alg, bounds, direction, line, p - 1))

\* One row of the horizontal gap-filling scan; after the last row the
\* vertical scan starts.
G_Row ==
    /\ cpc = "gaprows"
    /\ IF cScan > cBounds.maxRow
       THEN /\ cpc' = "gapcols"
            /\ cScan' = cBounds.minCol
            /\ UNCHANGED <<cGrid, cPlaced, cSet>>
       ELSE \E st \in {GapLine([grid |-> cGrid, placed |-> cPlaced, set |-> cSet],
                               cAlg, cBounds, "across", cScan, cBounds.maxCol)} :
               /\ cGrid' = st.grid
               /\ cPlaced' = st.placed
               /\ cSet' = st.set
               /\ cScan' = cScan + 1
               /\ cpc' = cpc
    /\ UNCHANGED <<cTag, cAlg, cWords, cQueue, cUnplaced, cPass, cBounds, cAttempt, cBest,
                   cResult, wordlist>>
    /\ UNCHANGED NotClassic

\* One column of the vertical gap-filling scan; after the last one, finalize.
G_Col ==
    /\ cpc = "gapcols"
    /\ IF cScan > cBounds.maxCol
       THEN /\ cpc' = "finalize"
            /\ cScan' = 0
            /\ UNCHANGED <<cGrid, cPlaced, cSet>>
       ELSE \E st \in {GapLine([grid |-> cGrid, placed |-> cPlaced, set |-> cSet],
                               cAlg, cBounds, "down", cScan, cBounds.maxRow)} :
               /\ cGrid' = st.grid
               /\ cPlaced' = st.placed
               /\ cSet' = st.set
               /\ cScan' = cScan + 1
               /\ cpc' = cpc
    /\ UNCHANGED <<cTag, cAlg, cWords, cQueue, cUnplaced, cPass, cBounds, cAttempt, cBest,
                   cResult, wordlist>>
    /\ UNCHANGED NotClassic

\* trimGrid: the bounding box cut out of the grid, [[]] for an empty grid.
trimGrid(grid) ==
    LET cut(bounds) ==
            IF bounds.width = 0
            THEN [trimmedGrid |-> [r \in 0..0 |-> <<>>], offsetRow |-> 0, offsetCol |-> 0]
            ELSE [trimmedGrid |->
                     [r \in 0..(bounds.height - 1) |-> [c \in 0..(bounds.width - 1) |->
                         grid[bounds.minRow + r][bounds.minCol + c]]],
                  offsetRow |-> bounds.minRow, offsetCol |-> bounds.minCol]
    IN cut(getBoundingBox(grid))

\* finalize: trim, shift the words by the trim offset, number them
\* (assignClueNumbers is the numbering scan NumberWords).
finalize(grid, placed) ==
    LET result(t) ==
            LET height == Cardinality(DOMAIN t.trimmedGrid)
                width == Cardinality(DOMAIN t.trimmedGrid[0])
                adjustedWords == [k \in 1..Len(placed) |->
                    GridWord(placed[k].word, placed[k].row - t.offsetRow,
                             placed[k].col - t.offsetCol, placed[k].direction)]
            IN [grid |-> t.trimmedGrid,
                words |-> NumberWords(adjustedWords, width, height),
                width |-> width, height |-> height]
    IN result(trimGrid(grid))

NUM_ATTEMPTS == 5

\* `return finalize(grid, placed)`.  In generateSmart this ends one attempt:
\* the first result is kept, a later one replaces it when it scores more
\* (the score has a logarithm term, so either outcome is admitted), and after
\* the last attempt the kept result is returned.
C_Finalize ==
    /\ cpc = "finalize"
    /\ \E result \in {finalize(cGrid, cPlaced)} :
          IF cAlg # "smart"
          THEN /\ cResult' = result
               /\ cpc' = "done"
               /\ UNCHANGED <<cAttempt, cBest>>
          ELSE /\ cBest' \in (IF cAttempt = 0 THEN {result} ELSE {result, cBest})
               /\ cAttempt' = cAttempt + 1
               /\ cpc' = IF cAttempt + 1 < NUM_ATTEMPTS THEN "start" ELSE "done"
               /\ cResult' = IF cAttempt + 1 < NUM_ATTEMPTS THEN cResult ELSE cBest'
    /\ UNCHANGED <<cTag, cAlg, cWords, cGrid, cPlaced, cQueue, cUnplaced, cPass, cBounds,
                   cSet, cScan, wordlist>>
    /\ UNCHANGED NotClassic

\* ------------------------------------------------------------------------
\* The classic runs that are explored
\* ------------------------------------------------------------------------
Algorithms == {"original", "compact", "dense", "fitted", "smart"}

\* The switch of generateCrossword: five cases, and a default that runs
\* generateSmart.
generateCrossword(algorithm) == IF algorithm \in Algorithms THEN algorithm ELSE "smart"

\* Longest input list drawn from the whole universe.
MaxWords == 3

\* A word one letter longer than the working grid is wide.
LongWord == [i \in 1..(GridSize + 1) |-> "A"]

Universe ==
    { <<"C", "A", "T">>, <<"A", "C", "T">>, <<"A", "T">>, <<"T", "A", "C", "T">>,
      LongWord }

\* Input lists: every list of up to MaxWords words of the universe (for smart,
\* which runs five attempts over every order of the list, one word less and
\* one list of three), and for dense a list with more words than seeds.
InputLists(most) == UNION {[1..n -> Universe] : n \in 0..most}

SmartList == << <<"C", "A", "T">>, <<"A", "T">>, <<"A", "C", "T">> >>

DenseList ==
    << <<"C", "A", "T">>, <<"A", "C", "T">>, <<"T", "A", "C", "T">>, <<"A", "T">>,
       <<"T", "A", "T">>, <<"C", "A", "T", "S">>, <<"T", "A">>, <<"A", "C", "T", "S">> >>

\* A list whose second longest word shares no letter with the longest and
\* crosses the shortest.
BridgeList ==
    << <<"C", "F", "D">>, <<"D", "E", "E", "E">>, <<"A", "B", "C", "X", "Y">> >>

\* A list whose longest words share no letter, so that the second one waits
\* for the retry pass, and whose last word is a prefix of it.
PrefixList ==
    << <<"D", "E", "E", "R">>, <<"C", "A", "T", "S">>, <<"R", "A", "T">>,
       <<"C", "A", "T">> >>

\* A list whose placements leave a gap that a playable dictionary word fills.
GapList == << <<"A", "T">>, <<"A", "C", "T">>, <<"T", "A", "C", "T">> >>

WordEntry(word, play) == [word |-> word, play |-> play]

ClassicDictionaries ==
    { << WordEntry(<<"C", "A", "T">>, 500), WordEntry(<<"A", "C", "T">>, 300),
         WordEntry(<<"A", "T">>, 900), WordEntry(<<"T", "A", "C", "T">>, 50),
         WordEntry(<<"T", "A">>, 10), WordEntry(<<"T", "A", "T">>, 120),
         WordEntry(<<"C", "A", "T", "S">>, 200), WordEntry(<<"A", "C", "T", "S">>, 90),
         WordEntry(<<"T", "A", "T", "A">>, 20), WordEntry(<<"A", "T", "T">>, 110),
         WordEntry(<<"C", "C">>, 0), WordEntry(<<"A", "A">>, 1) >> }

InitClassic ==
    /\ TemplateIdle
    /\ CacheIdle
    /\ AsyncIdle
    /\ PlacementsIdle
    /\ DriverIdle
    /\ FillinIdle
    /\ wordlist \in ClassicDictionaries
    /\ \/ cTag \in Algorithms \ {"smart"} /\ cWords \in InputLists(MaxWords)
       \/ cTag = "smart" /\ cWords \in InputLists(MaxWords - 1) \cup {SmartList}
       \/ cTag = "dense" /\ cWords = DenseList
       \/ cTag \in {"original", "dense"} /\ cWords = BridgeList
       \/ cTag = "smart" /\ cWords = GapList
       \/ cTag \in {"original", "compact"} /\ cWords = PrefixList
       \/ cTag = "fillin-smart" /\ cWords \in InputLists(1)
    /\ cAlg = generateCrossword(cTag)
    /\ cGrid = <<>>
    /\ cPlaced = <<>>
    /\ cQueue = <<>>
    /\ cUnplaced = <<>>
    /\ cPass = 0
    /\ cpc = "start"
    /\ cBounds = <<>>
    /\ cSet = {}
    /\ cScan = 0
    /\ cAttempt = 0
    /\ cBest = <<>>
    /\ cResult = <<>>

NextClassic ==
    \/ C_Seed
    \/ C_Step
    \/ C_PhaseEnd
    \/ G_Row
    \/ G_Col
    \/ C_Finalize

SpecClassic == InitClassic /\ [][NextClassic]_vars

\* ------------------------------------------------------------------------
\* The fill-in runs that are explored
\* ------------------------------------------------------------------------
\* A template written as rows of 1 (white) and 0 (black).
GridOf(rows) ==
    [r \in 0..(Len(rows) - 1) |->
        [c \in 0..(Len(rows[1]) - 1) |-> rows[r + 1][c + 1] = 1]]

Templates ==
    { <<<<1, 1, 1>>, <<1, 1, 1>>, <<1, 1, 1>>>>,
      <<<<1, 1, 1>>, <<1, 0, 1>>, <<1, 1, 1>>>>,
      <<<<1, 1, 1>>, <<0, 1, 0>>, <<0, 1, 0>>>>,
      <<<<1, 1, 1>>, <<1, 1, 1>>, <<0, 1, 0>>>>,
      <<<<0, 0, 0>>, <<0, 0, 0>>, <<0, 0, 0>>>>,
      <<<<1, 1, 1, 1>>>> }

Entry(a, b, c, play) == [word |-> <<a, b, c>>, play |-> play]

\* Word lists with their playability scores: one that fills the open 3x3
\* grid, one that fills nothing, one that lists a word twice, one over three
\* letters whose forward checks empty a domain deep in the search.
Dictionaries ==
    { << Entry("A", "A", "A", 3), Entry("B", "A", "B", 9), Entry("B", "B", "A", 3),
         Entry("A", "B", "B", 7), Entry("A", "A", "B", 0), Entry("A", "B", "A", 5),
         Entry("B", "A", "A", 1) >>,
      << Entry("A", "A", "A", 1), Entry("A", "A", "B", 2) >>,
      << Entry("A", "B", "C", 5), Entry("B", "C", "A", 3), Entry("C", "A", "B", 2),
         Entry("A", "A", "A", 1), Entry("B", "A", "C", 1) >>,
      << Entry("A", "A", "B", 4), Entry("A", "B", "A", 2), Entry("A", "A", "B", 4),
         Entry("B", "A", "A", 6), Entry("A", "B", "B", 1) >> }

MAX_BACKTRACKS == 20000
SmallCap == 2

\* The values of maxBacktracks solve is run with.
Caps == {0, SmallCap, MAX_BACKTRACKS}

InitFillin ==
    /\ TemplateIdle
    /\ CacheIdle
    /\ AsyncIdle
    /\ PlacementsIdle
    /\ DriverIdle
    /\ ClassicIdle
    /\ \E rows \in Templates :
         /\ fTemplate = GridOf(rows)
         /\ fW = Len(rows[1])
         /\ fH = Len(rows)
    /\ wordlist \in Dictionaries
    /\ maxBacktracks \in Caps
    /\ shuffleTop = SHUFFLE_TOP
    /\ slots = <<>>
    /\ assignments = <<>>
    /\ domains = <<>>
    /\ usedWords = {}
    /\ bt = 0
    /\ best = [assignments |-> <<>>, filledCount |-> 0]
    /\ stack = <<>>
    /\ fpc = "start"
    /\ fRet = FALSE
    /\ gResult = <<>>
    /\ gUsed = {}
    /\ gProgress = FALSE
    /\ gQueue = <<>>
    /\ fResult = <<>>

NextFillin ==
    \/ F_Prepare
    \/ S_Enter
    \/ S_Try
    \/ S_Exhausted
    \/ S_Return
    \/ S_Backtrack
    \/ F_AfterSolve
    \/ GP_Pass
    \/ GP_Slot
    \/ GP_EndPass
    \/ A_Assemble

SpecFillin == InitFillin /\ [][NextFillin]_vars

\* ---- Properties of the template -----------------------------------------
TRows == 0..(tH - 1)
TCols == 0..(tW - 1)

\* A maximal horizontal run of whites in row r from column a to column b.
IsHRun(r, a, b) ==
    /\ a <= b
    /\ \A c \in a..b : tGrid[r][c]
    /\ (a = 0 \/ ~tGrid[r][a - 1])
    /\ (b = tW - 1 \/ ~tGrid[r][b + 1])

IsVRun(c, a, b) ==
    /\ a <= b
    /\ \A r \in a..b : tGrid[r][c]
    /\ (a = 0 \/ ~tGrid[a - 1][c])
    /\ (b = tH - 1 \/ ~tGrid[b + 1][c])

NoShortRun ==
    /\ \A r \in TRows : \A a \in TCols, b \in TCols :
          IsHRun(r, a, b) => (b - a + 1) \notin {1, 2}
    /\ \A c \in TCols : \A a \in TRows, b \in TRows :
          IsVRun(c, a, b) => (b - a + 1) \notin {1, 2}

SomeBlack == \E r \in TRows, c \in TCols : ~tGrid[r][c]

\* C3: at every point of generateTemplate, and so in the grid it returns, the
\* grid is 180-degree rotationally symmetric: grid[r][c] = grid[h-1-r][w-1-c].
C3_Symmetric ==
    \A r \in TRows, c \in TCols : tGrid[r][c] = tGrid[tH - 1 - r][tW - 1 - c]

\* C3 witness: phase 1 has accepted black pairs and the call just made was a
\* rejected one.
C3_Witness ==
    /\ tPass > 0 /\ SomeBlack
    /\ tLast.called /\ ~tLast.ok

\* C4 as claimed: for any width and height the returned grid has no maximal
\* white run of length exactly 1 or 2.
C4_Original == tpc = "done" => NoShortRun

\* C4 amended: when width and height are both at least 3, no maximal white run
\* of the grid has length exactly 1 or 2, at any point of generateTemplate.
C4_NoShortRun == (tW >= MIN_SLOT_LENGTH /\ tH >= MIN_SLOT_LENGTH) => NoShortRun

\* C4 witness: a returned grid of at least 3x3 to which phase 2 added blacks.
C4_Witness ==
    /\ tpc = "done" /\ tW >= MIN_SLOT_LENGTH /\ tH >= MIN_SLOT_LENGTH
    /\ tAdded > 0 /\ SomeBlack

\* C5: all white cells form one 4-neighbour connected component, at every
\* point of generateTemplate: every white cell is reached from the last one.
LastCell(cells) ==
    CHOOSE rc \in cells :
        \A o \in cells : rc[1] > o[1] \/ (rc[1] = o[1] /\ rc[2] >= o[2])

C5_Connected ==
    LET whites == WhiteCells(tGrid, tW, tH)
    IN whites # {} =>
         LET a == LastCell(whites) IN Flood(whites, {a}, {a}) = whites

\* C5 witness: the call just made on a grid with blacks creates no short run
\* and was rejected: the rejection is the connectivity check's.
C5_Witness ==
    /\ SomeBlack
    /\ tLast.called /\ ~tLast.ok
    /\ placeBlackPair_NoConnCheck(tGrid, tLast.r, tLast.c, tW, tH).ok

\* ---- Properties of the fill-in solver -----------------------------------
DomainSets(doms) == [i \in 1..Len(doms) |-> SeqToSet(doms[i])]

\* C6: after every backtrack of solve the word-set of every slot's domain is
\* the one it was immediately before the undone candidate was assigned, and a
\* solve that returns false (as with cap 0 on an unsatisfiable slot graph)
\* leaves every domain equal to the initial one.
C6_RestoredExactly ==
    /\ [][fpc = "backtrack" => DomainSets(domains') = DomainSets(Top.before)]_vars
    /\ [](fpc = "solved" /\ ~fRet
            => DomainSets(domains) = DomainSets(InitialDomains(slots)))

\* A candidate of a nested call has been undone and its removed words put back.
C6_Witness ==
    /\ fpc = "loop"
    /\ Len(stack) >= 2
    /\ bt > 0
    /\ Top.word # Null
    /\ Len(Top.pruned) > 0

\* The cells of a word of a result, first to last.
WordCells(w) ==
    [j \in 1..Len(w.word) |->
        IF w.direction = "across" THEN <<w.row, w.col + j - 1>>
        ELSE <<w.row + j - 1, w.col>>]

\* The word lies inside the grid and the grid holds its letters.
MatchesGrid(res, w) ==
    \A j \in 1..Len(w.word) :
        LET cell == WordCells(w)[j]
        IN /\ cell[1] \in 0..(res.height - 1)
           /\ cell[2] \in 0..(res.width - 1)
           /\ res.grid[cell[1]][cell[2]] = w.word[j]

\* The slots whose words the greedy patch added to the base assignment.
Patched == {i \in 1..Len(gResult) :
              gResult[i] # Null /\ ~fRet /\ best.assignments[i] = Null}

\* C7: in a fill-in result every output word lies inside the grid and the grid
\* holds its letters, and any two assigned slots that cross have the same
\* letter at the shared cell.
C7_WordsMatchGrid ==
    fpc = "done" =>
        /\ \A k \in 1..Len(fResult.words) : MatchesGrid(fResult, fResult.words[k])
        /\ \A i \in 1..Len(slots) : \A k \in 1..Len(slots[i].crossings) :
             LET crossing == slots[i].crossings[k]
                 other == gResult[crossing.otherSlotIdx]
             IN (gResult[i] # Null /\ other # Null)
                  => Letter(gResult[i], crossing.indexInSlot)
                       = Letter(other, crossing.indexInOtherSlot)

\* A result in which a word added by the greedy patch crosses an assigned word.
C7_Witness ==
    /\ fpc = "done"
    /\ \E i \in Patched : \E k \in 1..Len(slots[i].crossings) :
         gResult[slots[i].crossings[k].otherSlotIdx] # Null

NoRepeat(q) == \A i, j \in 1..Len(q) : (i # j /\ q[i] # Null) => q[i] # q[j]

\* C8: no word occurs twice in a fill-in result; the words assigned by solve
\* are pairwise distinct at every point, so are those of the best-partial
\* snapshot and those of the assignment the greedy patch extends.
C8_NoDuplicateWords ==
    /\ NoRepeat(assignments)
    /\ NoRepeat(best.assignments)
    /\ NoRepeat(gResult)
    /\ fpc = "done" =>
         \A i, j \in 1..Len(fResult.words) :
            i # j => fResult.words[i].word # fResult.words[j].word

\* A result with a patched word whose slot could also hold a word in use.
C8_Witness ==
    /\ fpc = "done"
    /\ Len(fResult.words) >= 2
    /\ \E i \in Patched :
         GreedyWord_NoUsed(i, [gResult EXCEPT ![i] = Null], {}) \in gUsed \ {gResult[i]}

\* ------------------------------------------------------------------------
\* Properties of the classic strategies
\* ------------------------------------------------------------------------
\* The placed word a result word comes from, shifted by the trim offset.
ShiftedFrom(w, placed, bounds) ==
    \E k \in 1..Len(placed) :
        /\ placed[k].word = w.word
        /\ placed[k].direction = w.direction
        /\ placed[k].row - bounds.minRow = w.row
        /\ placed[k].col - bounds.minCol = w.col

\* C1: in the result of every classic strategy each output word lies inside
\* the grid and the grid holds its letters (so does the result generateSmart
\* keeps between attempts); the grid is the bounding box of the working grid
\* and every output word is a placed word shifted by the trim offset; and no
\* step of a run changes a letter that is already on the working grid.
C1_WordsMatchGrid ==
    /\ [](cpc = "done" =>
             \A k \in 1..Len(cResult.words) : MatchesGrid(cResult, cResult.words[k]))
    /\ [](cBest # <<>> =>
             \A k \in 1..Len(cBest.words) : MatchesGrid(cBest, cBest.words[k]))
    /\ []((cpc = "done" /\ cAlg # "smart") =>
             /\ cResult.width = getBoundingBox(cGrid).width
             /\ cResult.height = getBoundingBox(cGrid).height
             /\ \A k \in 1..Len(cResult.words) :
                  ShiftedFrom(cResult.words[k], cPlaced, getBoundingBox(cGrid)))
    /\ [][cpc # "start" =>
             \A r, c \in 0..(GridSize - 1) :
                cGrid[r][c] # NullCell => cGrid'[r][c] = cGrid[r][c]]_vars

\* A fitted result of four words or more, one of them added by gap filling,
\* trimmed from the middle of the working grid.
C1_Witness ==
    /\ cpc = "done"
    /\ cAlg = "fitted"
    /\ Len(cResult.words) >= 4
    /\ Len(cPlaced) > Len(cWords)
    /\ getBoundingBox(cGrid).minRow > 0
    /\ getBoundingBox(cGrid).minCol > 0

\* C2: generateCrossword([], algorithm) returns, for every classic strategy,
\* a result with width 0, height 0 and no words, and does not throw.
C2_EmptyInputReturnsEmpty ==
    cWords = <<>> =>
        \/ cpc = "start"
        \/ /\ cpc = "done"
           /\ cResult.width = 0
           /\ cResult.height = 0
           /\ cResult.words = <<>>

\* C9: no word occurs in two entries of the words of a classic result.
C9_NoDuplicateWords ==
    cpc = "done" =>
        \A i, j \in 1..Len(cResult.words) :
            i # j => cResult.words[i].word # cResult.words[j].word

\* ------------------------------------------------------------------------
\* Clue numbering of classic and fill-in results
\* ------------------------------------------------------------------------
\* A run of either generator.
InitResults == InitClassic \/ InitFillin

NextResults == NextClassic \/ NextFillin

SpecResults == InitResults /\ [][NextResults]_vars

StartCells(ws) == {<<ws[k].row, ws[k].col>> : k \in 1..Len(ws)}

\* Cell a comes before cell b in the row-major scan.
RowMajorBefore(a, b) == a[1] < b[1] \/ (a[1] = b[1] /\ a[2] < b[2])

\* The clue numbers of ws are 1..k for its k start cells, grow with the
\* row-major order of the start cells, and are shared exactly by the words
\* that start at one cell.
NumberedInScanOrder(ws) ==
    /\ {ws[k].clueNumber : k \in 1..Len(ws)} = 1..Cardinality(StartCells(ws))
    /\ \A i, j \in 1..Len(ws) :
         /\ (ws[i].row = ws[j].row /\ ws[i].col = ws[j].col)
               <=> ws[i].clueNumber = ws[j].clueNumber
         /\ RowMajorBefore(<<ws[i].row, ws[i].col>>, <<ws[j].row, ws[j].col>>)
               => ws[i].clueNumber < ws[j].clueNumber

\* C10: in every classic result (also the one generateSmart keeps between
\* attempts) and every fill-in result the clue numbers are exactly 1..k for
\* the k distinct start cells, increase strictly in row-major order of the
\* start cells, are equal for an across and a down word starting at one cell,
\* and differ for words with different start cells.
C10_ClueNumbers ==
    /\ cpc = "done" => NumberedInScanOrder(cResult.words)
    /\ cBest # <<>> => NumberedInScanOrder(cBest.words)
    /\ fpc = "done" => NumberedInScanOrder(fResult.words)

\* A result in which an across and a down word start at one cell and two
\* more cells start a word.
C10_Witness ==
    \E ws \in (IF cpc = "done" THEN {cResult.words} ELSE {})
              \cup (IF fpc = "done" THEN {fResult.words} ELSE {}) :
        /\ Cardinality(StartCells(ws)) >= 3
        /\ \E i, j \in 1..Len(ws) :
             /\ i # j
             /\ ws[i].row = ws[j].row
             /\ ws[i].col = ws[j].col

\* ------------------------------------------------------------------------
\* extractSlots on arbitrary grids
\* ------------------------------------------------------------------------
\* Side of the square grids drawn, and the most black cells in one.
SlotSide == 4
MaxBlack == 3

\* The hand-crafted grids of the tests: the L shape, the run of two, the
\* 3x3 cross and the 5x5 cross.
LShape ==
    <<<<1, 1, 1, 0, 0>>, <<1, 0, 0, 0, 0>>, <<1, 0, 0, 0, 0>>,
      <<0, 0, 0, 0, 0>>, <<0, 0, 0, 0, 0>>>>

RunOfTwo ==
    <<<<1, 1, 0, 0, 0>>, <<0, 0, 0, 0, 0>>, <<0, 0, 0, 0, 0>>,
      <<0, 0, 0, 0, 0>>, <<0, 0, 0, 0, 0>>>>

SmallCross == <<<<0, 1, 0>>, <<1, 1, 1>>, <<0, 1, 0>>>>

LargeCross ==
    <<<<0, 0, 1, 0, 0>>, <<0, 0, 1, 0, 0>>, <<1, 1, 1, 1, 1>>,
      <<0, 0, 1, 0, 0>>, <<0, 0, 1, 0, 0>>>>

Fixtures == {LShape, RunOfTwo, SmallCross, LargeCross}

\* Every SlotSide x SlotSide grid with at most MaxBlack black cells.
RECURSIVE SetsUpTo(_, _)
SetsUpTo(cells, most) ==
    IF most = 0 THEN {{}}
    ELSE LET fewer == SetsUpTo(cells, most - 1)
         IN fewer \cup {B \cup {x} : B \in fewer, x \in cells}

SparseGrids ==
    LET cells == (0..(SlotSide - 1)) \X (0..(SlotSide - 1))
        blacks == SetsUpTo(cells, MaxBlack)
    IN {[r \in 0..(SlotSide - 1) |-> [c \in 0..(SlotSide - 1) |-> <<r, c>> \notin B]] :
          B \in blacks}

\* extractSlots(grid, width, height) is called by generateFillinSmart.
InitSlots ==
    /\ TemplateIdle
    /\ CacheIdle
    /\ AsyncIdle
    /\ PlacementsIdle
    /\ DriverIdle
    /\ ClassicIdle
    /\ \/ /\ fTemplate \in SparseGrids
          /\ fW = SlotSide
          /\ fH = SlotSide
       \/ \E rows \in Fixtures :
             /\ fTemplate = GridOf(rows)
             /\ fW = Len(rows[1])
             /\ fH = Len(rows)
    /\ wordlist = << Entry("A", "A", "A", 1), Entry("A", "A", "B", 2) >>
    /\ maxBacktracks = 0
    /\ shuffleTop = SHUFFLE_TOP
    /\ slots = <<>>
    /\ assignments = <<>>
    /\ domains = <<>>
    /\ usedWords = {}
    /\ bt = 0
    /\ best = [assignments |-> <<>>, filledCount |-> 0]
    /\ stack = <<>>
    /\ fpc = "start"
    /\ fRet = FALSE
    /\ gResult = <<>>
    /\ gUsed = {}
    /\ gProgress = FALSE
    /\ gQueue = <<>>
    /\ fResult = <<>>

SpecSlots == InitSlots /\ [][F_Prepare]_vars

\* The slots have been extracted from fTemplate.
Extracted == fpc \notin {"idle", "start"}

\* C11: every crossing stored in slot i towards slot j has a crossing back in
\* slot j, towards i, with the two offsets exchanged.
C11_CrossingsBidirectional ==
    Extracted =>
        \A i \in 1..Len(slots) : \A k \in 1..Len(slots[i].crossings) :
            LET x == slots[i].crossings[k]
            IN \E m \in 1..Len(slots[x.otherSlotIdx].crossings) :
                 LET y == slots[x.otherSlotIdx].crossings[m]
                 IN /\ y.otherSlotIdx = i
                    /\ y.indexInSlot = x.indexInOtherSlot
                    /\ y.indexInOtherSlot = x.indexInSlot

\* Slots with a crossing whose two offsets differ.
C11_Witness ==
    /\ Extracted
    /\ \E i \in 1..Len(slots) : \E k \in 1..Len(slots[i].crossings) :
         slots[i].crossings[k].indexInSlot # slots[i].crossings[k].indexInOtherSlot

\* ------------------------------------------------------------------------
\* generateCrosswordAsync and crosswordGenerator.worker.ts
\*
\* The main thread and the worker run concurrently; postMessage delivers
\* messages in order in each direction.  self.onmessage runs one request
\* to completion before it takes the next one.
\* ------------------------------------------------------------------------

MaxCalls == 2
MaxProgress == 2

AsyncWordLists == {<<>>, << <<"C", "A", "T">> >>}
AsyncAlgorithms == {"original", "smart"}

\* generateCrossword(words, algorithm) throws on an empty list: every
\* strategy reads sorted[0].word.
Throws(req) == Len(req.words) = 0

\* Only generateSmart, the "smart" and the default case, is handed the
\* onProgress callback.
ReportsProgress(req) == req.algorithm \notin {"original", "compact", "dense", "fitted"}

\* The terminal messages self.onmessage sends for a request.
Terminal_Both(req) ==
    IF Throws(req)
    THEN << [type |-> "result", id |-> req.id, data |-> req.words],
            [type |-> "error", id |-> req.id, data |-> "message"] >>
    ELSE << [type |-> "result", id |-> req.id, data |-> req.words] >>

Terminal(req) ==
    IF Throws(req)
    THEN << [type |-> "error", id |-> req.id, data |-> "message"] >>
    ELSE << [type |-> "result", id |-> req.id, data |-> req.words] >>

\* The handler a call registers, applied to one dispatched message.  The
\* field ignored records that it returned at once on some message.
handler_AnyId(call, msg) ==
    IF msg.type = "progress"
    THEN [call EXCEPT !.progress = Append(@, msg.id)]
    ELSE IF msg.type = "result"
    THEN [call EXCEPT !.state = IF @ = "pending" THEN "resolved" ELSE @,
                      !.settledBy = Append(@, msg)]
    ELSE [call EXCEPT !.state = IF @ = "pending" THEN "rejected" ELSE @,
                      !.settledBy = Append(@, msg)]

handler(call, msg) ==
    IF msg.id # call.id
    THEN [call EXCEPT !.ignored = TRUE]
    ELSE IF msg.type = "progress"
    THEN [call EXCEPT !.progress = Append(@, msg.id)]
    ELSE IF msg.type = "result"
    THEN [call EXCEPT !.state = IF @ = "pending" THEN "resolved" ELSE @,
                      !.settledBy = Append(@, msg)]
    ELSE [call EXCEPT !.state = IF @ = "pending" THEN "rejected" ELSE @,
                      !.settledBy = Append(@, msg)]

\* Whether the handler of a call removes itself on a message.
Unlistens(call, msg) == msg.id = call.id /\ msg.type \in {"result", "error"}

StillListening(listeners, calls, msg) ==
    SelectSeq(listeners, LAMBDA k : ~Unlistens(calls[k], msg))

\* generateCrosswordAsync(words, algorithm, onProgress)
M_Call ==
    /\ Len(aCalls) < MaxCalls
    /\ \E words \in AsyncWordLists, algorithm \in AsyncAlgorithms :
         /\ aRequestId' = aRequestId + 1
         /\ aCalls' = Append(aCalls, [id |-> aRequestId + 1, words |-> words,
                                      algorithm |-> algorithm,
                                      state |-> "pending", settledBy |-> <<>>,
                                      progress |-> <<>>, ignored |-> FALSE])
         /\ aListeners' = Append(aListeners, Len(aCalls) + 1)
         /\ aToWorker' = Append(aToWorker,
                                [type |-> "generate", id |-> aRequestId + 1,
                                 words |-> words, algorithm |-> algorithm])
    /\ UNCHANGED <<aToMain, wCur, wProgress, wPosted, wHandled>>
    /\ UNCHANGED aFaults
    /\ UNCHANGED NotAsync

\* One "message" event of the worker object: every registered handler runs.
M_Dispatch ==
    /\ Len(aToMain) > 0
    /\ aCalls' = [k \in 1..Len(aCalls) |->
                    IF \E n \in 1..Len(aListeners) : aListeners[n] = k
                    THEN handler(aCalls[k], Head(aToMain))
                    ELSE aCalls[k]]
    /\ aListeners' = StillListening(aListeners, aCalls, Head(aToMain))
    /\ aToMain' = Tail(aToMain)
    /\ UNCHANGED <<aRequestId, aToWorker, wCur, wProgress, wPosted, wHandled>>
    /\ UNCHANGED aFaults
    /\ UNCHANGED NotAsync

\* self.onmessage is entered with the next request.
W_Receive ==
    /\ wCur = Null
    /\ Len(aToWorker) > 0
    /\ Head(aToWorker).type = "generate"
    /\ wCur' = Head(aToWorker)
    /\ aToWorker' = Tail(aToWorker)
    /\ wProgress' = 0
    /\ UNCHANGED <<aRequestId, aCalls, aListeners, aToMain, wPosted, wHandled>>
    /\ UNCHANGED aFaults
    /\ UNCHANGED NotAsync

\* The progress callback handed to generateCrossword sends one message.
W_Progress ==
    /\ wCur # Null
    /\ ReportsProgress(wCur)
    /\ wProgress < MaxProgress
    /\ wProgress' = wProgress + 1
    /\ aToMain' = Append(aToMain, [type |-> "progress", id |-> wCur.id,
                                   data |-> "message"])
    /\ wPosted' = Append(wPosted, [type |-> "progress", id |-> wCur.id,
                                   data |-> "message"])
    /\ UNCHANGED <<aRequestId, aCalls, aListeners, aToWorker, wCur, wHandled>>
    /\ UNCHANGED aFaults
    /\ UNCHANGED NotAsync

\* generateCrossword returns or throws; the terminal message is sent.
W_Finish ==
    /\ wCur # Null
    /\ aToMain' = aToMain \o Terminal(wCur)
    /\ wPosted' = wPosted \o Terminal(wCur)
    /\ wHandled' = Append(wHandled, wCur)
    /\ wCur' = Null
    /\ wProgress' = 0
    /\ UNCHANGED <<aRequestId, aCalls, aListeners, aToWorker>>
    /\ UNCHANGED aFaults
    /\ UNCHANGED NotAsync

InitAsync ==
    /\ TemplateIdle
    /\ CacheIdle
    /\ FillinIdle
    /\ ClassicIdle
    /\ wordlist = <<>>
    /\ AsyncIdle
    /\ PlacementsIdle
    /\ DriverIdle

NextAsync == M_Call \/ M_Dispatch \/ W_Receive \/ W_Progress \/ W_Finish

SpecAsync == InitAsync /\ [][NextAsync]_vars

\* Each step of the worker is eventually taken; the main thread's event
\* loop eventually dispatches a posted message.
FairAsync == SpecAsync /\ WF_vars(W_Receive) /\ WF_vars(W_Finish) /\ WF_vars(M_Dispatch)

\* The messages of one request id, in the order they were posted.
PostedFor(id) == SelectSeq(wPosted, LAMBDA m : m.id = id)

TerminalsFor(id) == SelectSeq(wPosted, LAMBDA m : m.id = id /\ m.type # "progress")

\* Ids of the requests the worker has received so far.
ReceivedIds == {wHandled[n].id : n \in 1..Len(wHandled)} \cup (IF wCur = Null THEN {} ELSE {wCur.id})

\* C12: for every generate request the worker handles it posts zero or
\* more progress messages and then exactly one terminal message, a result
\* when generateCrossword returned and an error when it threw; every
\* posted message carries the id of a received request, and no progress
\* message of an id follows that id's terminal message.
C12_Shape ==
    /\ \A n \in 1..Len(wPosted) : wPosted[n].id \in ReceivedIds
    /\ \A n \in 1..Len(wHandled) :
         LET req == wHandled[n]
             mine == PostedFor(req.id)
         IN /\ Len(mine) >= 1
            /\ Len(TerminalsFor(req.id)) = 1
            /\ mine[Len(mine)].type = (IF Throws(req) THEN "error" ELSE "result")
            /\ \A k \in 1..(Len(mine) - 1) : mine[k].type = "progress"
    /\ wCur # Null => \A k \in 1..Len(PostedFor(wCur.id)) : PostedFor(wCur.id)[k].type = "progress"

C12_WorkerProtocol ==
    /\ []C12_Shape
    /\ [][\A n \in 1..Len(wHandled) : PostedFor(wHandled[n].id)' = PostedFor(wHandled[n].id)]_vars
    /\ \A id \in 1..MaxCalls : (wCur # Null /\ wCur.id = id) ~> (Len(TerminalsFor(id)) = 1)

C12_Witness ==
    /\ Len(wHandled) = MaxCalls
    /\ \E n, m \in 1..Len(wHandled) :
         /\ Throws(wHandled[n]) /\ Len(PostedFor(wHandled[n].id)) > 1
         /\ ~Throws(wHandled[m]) /\ Len(PostedFor(wHandled[m].id)) > 1

\* C13: with overlapping calls of generateCrosswordAsync on the one worker,
\* every call has an id of its own, its promise is settled at most once,
\* by the result or error message carrying its id (resolved by a result,
\* rejected by an error), and only progress messages carrying its id reach
\* its progress callback.
C13_CallsIsolated ==
    /\ \A i, j \in 1..Len(aCalls) : i # j => aCalls[i].id # aCalls[j].id
    /\ \A k \in 1..Len(aCalls) :
         LET call == aCalls[k]
         IN /\ Len(call.settledBy) <= 1
            /\ \A n \in 1..Len(call.settledBy) :
                 /\ call.settledBy[n].id = call.id
                 /\ call.settledBy[n].type \in {"result", "error"}
                 /\ call.state = (IF call.settledBy[n].type = "result" THEN "resolved" ELSE "rejected")
                 /\ call.settledBy[n].type = "result" => call.settledBy[n].data = call.words
            /\ call.settledBy = <<>> => call.state = "pending"
            /\ \A n \in 1..Len(call.progress) : call.progress[n] = call.id

C13_Witness ==
    \E i, j \in 1..Len(aCalls) :
        /\ aCalls[i].state = "resolved"
        /\ aCalls[j].state = "rejected" /\ aCalls[j].ignored
        /\ aCalls[j].progress # <<>>

\* C14: generateCrossword called with the tag "fillin-smart" ends, whatever
\* the word list, with a result whose puzzleType is "fillin" and that has
\* at least one word.
C14_FillinSmartDispatch ==
    (cTag = "fillin-smart" /\ cpc \in {"done", "threw"}) =>
        /\ cpc = "done"
        /\ "puzzleType" \in DOMAIN cResult
        /\ cResult.puzzleType = "fillin"
        /\ Len(cResult.words) >= 1

\* ------------------------------------------------------------------------
\* generateFillinSmart: attempts, restarts, scoring and the returned value
\*
\* Each attempt draws a template; each restart runs the solver, greedyPatch
\* and assembleResult as above (fpc from "start" to "skipped", "noresult" or
\* "done") and is then scored here.
\* ------------------------------------------------------------------------
NUM_ATTEMPTS_FILLIN == 8
RESTARTS_PER_TEMPLATE == 3
FULL_SOLVE_BONUS == 5000

\* Templates generateTemplate may hand to an attempt: a T of two crossing
\* slots, a ring of four slots, a line no listed word is long enough for.
DriverTemplates ==
    { <<<<1, 1, 1>>, <<0, 1, 0>>, <<0, 1, 0>>>>,
      <<<<1, 1, 1>>, <<1, 0, 1>>, <<1, 1, 1>>>>,
      <<<<1, 1, 1, 1>>>> }

\* Word lists: one that fills both templates, one of two well-known words
\* (playability scores of this size are what GridPreview calls excellent
\* and above), one of a single word that cannot cross itself in the T.
DriverDictionaries ==
    { << Entry("A", "A", "A", 3), Entry("B", "A", "B", 9), Entry("B", "B", "A", 3),
         Entry("A", "B", "B", 7), Entry("A", "A", "B", 0), Entry("A", "B", "A", 5),
         Entry("B", "A", "A", 1) >>,
      << Entry("A", "A", "A", 40000), Entry("A", "A", "B", 50000) >>,
      << Entry("A", "B", "B", 7) >> }

\* Fractions <<numerator, denominator>> with a positive denominator.
FracGreater(x, y) == x[1] * y[2] > y[1] * x[2]
FracAtLeast(x, n) == x[1] >= n * x[2]

\* score = (allFilled ? 5000 : 0) + completeness * 2000 + patchedFilledCount * 100
\*         + avgPlay * 0.1 + lengths.size * 50, over the denominator 10 * slots.
FillScore_BonusFree(result, patchedFilledCount, slotCount) ==
    LET lengths == {Len(result.words[k].word) : k \in 1..Len(result.words)}
    IN << patchedFilledCount * 2000 * 10
          + patchedFilledCount * 100 * 10 * slotCount
          + result.avgPlayability * slotCount
          + Cardinality(lengths) * 50 * 10 * slotCount,
          10 * slotCount >>

FillScore(result, patchedFilledCount, slotCount) ==
    LET allFilled == patchedFilledCount = slotCount
        lengths == {Len(result.words[k].word) : k \in 1..Len(result.words)}
    IN << (IF allFilled THEN FULL_SOLVE_BONUS ELSE 0) * 10 * slotCount
          + patchedFilledCount * 2000 * 10
          + patchedFilledCount * 100 * 10 * slotCount
          + result.avgPlayability * slotCount
          + Cardinality(lengths) * 50 * 10 * slotCount,
          10 * slotCount >>

FilledCount(assigned) == Cardinality({i \in 1..Len(assigned) : assigned[i] # Null})

\* The value returned when bestResult is null.
Degenerate ==
    [grid |-> <<<<>>>>, words |-> <<>>, width |-> 0, height |-> 0,
     avgPlayability |-> 0, puzzleType |-> "fillin"]

\* The head of the attempt loop: a template is generated.
D_Attempt ==
    /\ dpc = "attempt"
    /\ dAttempt < NUM_ATTEMPTS_FILLIN
    /\ \E rows \in DriverTemplates :
         /\ fTemplate' = GridOf(rows)
         /\ fW' = Len(rows[1])
         /\ fH' = Len(rows)
    /\ fpc' = "start"
    /\ dRestart' = 0
    /\ dpc' = "restart"
    /\ UNCHANGED <<maxBacktracks, shuffleTop, slots, assignments, domains, usedWords, bt, best,
                   stack, fRet, gResult, gUsed, gProgress, gQueue, fResult, wordlist>>
    /\ UNCHANGED <<dAttempt, dBestScore, dBestResult, dBestFill, dAssigned, dReturn>>
    /\ UNCHANGED NotDriver

\* if (slots.length === 0) continue; if (!allCovered) continue
D_Skip ==
    /\ dpc = "restart"
    /\ fpc = "skipped"
    /\ dAttempt' = dAttempt + 1
    /\ dpc' = "attempt"
    /\ UNCHANGED <<fvars, wordlist>>
    /\ UNCHANGED <<dRestart, dBestScore, dBestResult, dBestFill, dAssigned, dReturn>>
    /\ UNCHANGED NotDriver

\* The end of a restart whose base has no filled slot: nothing is scored.
D_NoCandidate ==
    /\ dpc = "restart"
    /\ fpc = "noresult"
    /\ dAssigned' = (dAssigned \/ bt > 0)
    /\ dRestart' = dRestart + 1
    /\ IF dRestart + 1 < RESTARTS_PER_TEMPLATE
       THEN fpc' = "start" /\ dpc' = "restart"
       ELSE fpc' = fpc /\ dpc' = "endattempt"
    /\ UNCHANGED <<fTemplate, fW, fH, maxBacktracks, shuffleTop, slots, assignments, domains,
                   usedWords, bt, best, stack, fRet, gResult, gUsed, gProgress,
                   gQueue, fResult, wordlist>>
    /\ UNCHANGED <<dAttempt, dBestScore, dBestResult, dBestFill, dReturn>>
    /\ UNCHANGED NotDriver

\* The end of a restart with a result: it is scored, kept if it beats the
\* best so far, and a complete fill leaves the restart loop.
D_Score ==
    /\ dpc = "restart"
    /\ fpc = "done"
    /\ LET patchedFilledCount == FilledCount(gResult)
           allFilled == patchedFilledCount = Len(slots)
           score == FillScore(fResult, patchedFilledCount, Len(slots))
       IN /\ IF FracGreater(score, dBestScore)
             THEN /\ dBestScore' = score
                  /\ dBestResult' = fResult
                  /\ dBestFill' = <<patchedFilledCount, Len(slots)>>
             ELSE UNCHANGED <<dBestScore, dBestResult, dBestFill>>
          /\ IF ~allFilled /\ dRestart + 1 < RESTARTS_PER_TEMPLATE
             THEN fpc' = "start" /\ dpc' = "restart"
             ELSE fpc' = fpc /\ dpc' = "endattempt"
    /\ dAssigned' = TRUE
    /\ dRestart' = dRestart + 1
    /\ UNCHANGED <<fTemplate, fW, fH, maxBacktracks, shuffleTop, slots, assignments, domains,
                   usedWords, bt, best, stack, fRet, gResult, gUsed, gProgress,
                   gQueue, fResult, wordlist>>
    /\ UNCHANGED <<dAttempt, dReturn>>
    /\ UNCHANGED NotDriver

\* if (bestScore >= 5000) return bestResult!  -- else the next attempt.
D_EndAttempt ==
    /\ dpc = "endattempt"
    /\ IF FracAtLeast(dBestScore, FULL_SOLVE_BONUS)
       THEN /\ dReturn' = dBestResult
            /\ dpc' = "returned"
            /\ UNCHANGED dAttempt
       ELSE /\ dAttempt' = dAttempt + 1
            /\ dpc' = "attempt"
            /\ UNCHANGED dReturn
    /\ UNCHANGED <<fvars, wordlist>>
    /\ UNCHANGED <<dRestart, dBestScore, dBestResult, dBestFill, dAssigned>>
    /\ UNCHANGED NotDriver

\* After the last attempt: return bestResult ?? the degenerate value.
D_Return ==
    /\ dpc = "attempt"
    /\ dAttempt >= NUM_ATTEMPTS_FILLIN
    /\ dReturn' = IF dBestResult = Null THEN Degenerate ELSE dBestResult
    /\ dpc' = "returned"
    /\ UNCHANGED <<fvars, wordlist>>
    /\ UNCHANGED <<dAttempt, dRestart, dBestScore, dBestResult, dBestFill, dAssigned>>
    /\ UNCHANGED NotDriver

InitDriver ==
    /\ TemplateIdle
    /\ CacheIdle
    /\ ClassicIdle
    /\ AsyncIdle
    /\ PlacementsIdle
    /\ wordlist \in DriverDictionaries
    /\ maxBacktracks \in {SmallCap, MAX_BACKTRACKS}
    /\ shuffleTop = SHUFFLE_TOP
    /\ fTemplate = <<>> /\ fW = 0 /\ fH = 0
    /\ slots = <<>> /\ assignments = <<>> /\ domains = <<>>
    /\ usedWords = {} /\ bt = 0
    /\ best = [assignments |-> <<>>, filledCount |-> 0]
    /\ stack = <<>> /\ fpc = "idle" /\ fRet = FALSE
    /\ gResult = <<>> /\ gUsed = {} /\ gProgress = FALSE /\ gQueue = <<>>
    /\ fResult = <<>>
    /\ dpc = "attempt" /\ dAttempt = 0 /\ dRestart = 0 /\ dBestScore = <<-1, 1>>
    /\ dBestResult = Null /\ dBestFill = <<0, 0>> /\ dAssigned = FALSE
    /\ dReturn = <<>>

NextDriver ==
    \/ D_Attempt
    \/ D_Skip
    \/ D_NoCandidate
    \/ D_Score
    \/ D_EndAttempt
    \/ D_Return
    \/ NextFillin

SpecDriver == InitDriver /\ [][NextDriver]_vars

\* generateFillinSmart has returned from inside the attempt loop, before the
\* last attempt.
EarlyExit == dpc = "returned" /\ dAttempt + 1 < NUM_ATTEMPTS_FILLIN

\* C15: whenever generateFillinSmart leaves the attempt loop early, every
\* slot of the template behind the returned result was assigned a word.
C15_EarlyExitOnlyPerfect ==
    EarlyExit => (dReturn = dBestResult /\ dBestFill[1] = dBestFill[2])

Writes(w, r, c, x) ==
    \E j \in 0..(Len(w.word) - 1) :
        /\ (IF w.direction = "across" THEN <<w.row, w.col + j>> ELSE <<w.row + j, w.col>>) = <<r, c>>
        /\ w.word[j + 1] = x

\* C16: in the grid of every fill-in result each cell is null or a letter
\* written by at least one output word, and none holds the empty-white
\* marker; black cells of the template are null, and the cells of a slot
\* left unfilled that no filled slot covers are null.
C16_NoEmptyWhite ==
    fpc = "done" =>
        /\ \A r \in 0..(fH - 1), c \in 0..(fW - 1) :
             /\ fResult.grid[r][c] # EmptyWhite
             /\ \/ fResult.grid[r][c] = NullCell
                \/ \E k \in 1..Len(fResult.words) :
                       Writes(fResult.words[k], r, c, fResult.grid[r][c])
             /\ ~fTemplate[r][c] => fResult.grid[r][c] = NullCell
        /\ Len(fResult.words) = FilledCount(gResult)
        /\ \A i \in 1..Len(slots) :
             gResult[i] = Null =>
                 \A cell \in SlotCells(slots[i]) :
                     (\A k \in 1..Len(slots) : gResult[k] # Null => cell \notin SlotCells(slots[k]))
                         => fResult.grid[cell[1]][cell[2]] = NullCell

\* A result with an unfilled slot of which one cell is covered by a filled
\* crossing slot and another is not.
C16_Witness ==
    /\ fpc = "done"
    /\ \E i \in 1..Len(slots) :
         /\ gResult[i] = Null
         /\ \E a, b \in SlotCells(slots[i]) :
              /\ fResult.grid[a[1]][a[2]] \notin {NullCell, EmptyWhite}
              /\ fResult.grid[b[1]][b[2]] = NullCell

\* ---- The slots of a grid, stated on the grid itself ---------------------
White(r, c) == r \in 0..(fH - 1) /\ c \in 0..(fW - 1) /\ fTemplate[r][c]

\* The n cells from (r, c) on, along the direction, are a maximal white run.
MaximalRun(direction, r, c, n) ==
    IF direction = "across"
    THEN /\ \A j \in 0..(n - 1) : White(r, c + j)
         /\ ~White(r, c - 1)
         /\ ~White(r, c + n)
    ELSE /\ \A j \in 0..(n - 1) : White(r + j, c)
         /\ ~White(r - 1, c)
         /\ ~White(r + n, c)

\* The slots that start at (r, c) in the direction.
SlotsAt(direction, r, c) ==
    {i \in 1..Len(slots) :
        slots[i].direction = direction /\ slots[i].row = r /\ slots[i].col = c}

\* C18: extractSlots returns exactly one slot for each maximal horizontal
\* and each maximal vertical run of white cells of length at least 3, with
\* the run's start cell, direction and length, and no slot for a run of
\* length 1 or 2; every slot is such a run.  The L-shaped grid yields one
\* across and one down slot of length 3, both starting at (0, 0).
C18_SlotsAreLongRuns ==
    Extracted =>
        /\ \A direction \in {"across", "down"}, r \in 0..(fH - 1), c \in 0..(fW - 1) :
             \A n \in 1..Max(fW, fH) :
                 MaximalRun(direction, r, c, n) =>
                     IF n >= MIN_SLOT_LENGTH
                     THEN /\ Cardinality(SlotsAt(direction, r, c)) = 1
                          /\ \A i \in SlotsAt(direction, r, c) : slots[i].length = n
                     ELSE SlotsAt(direction, r, c) = {}
        /\ \A i \in 1..Len(slots) :
             /\ slots[i].length >= MIN_SLOT_LENGTH
             /\ MaximalRun(slots[i].direction, slots[i].row, slots[i].col, slots[i].length)
        /\ fTemplate = GridOf(LShape) =>
             /\ Len(slots) = 2
             /\ \E a, d \in 1..2 :
                  /\ slots[a].direction = "across" /\ slots[d].direction = "down"
                  /\ slots[a].row = 0 /\ slots[a].col = 0 /\ slots[a].length = 3
                  /\ slots[d].row = 0 /\ slots[d].col = 0 /\ slots[d].length = 3
        /\ fTemplate = GridOf(RunOfTwo) => slots = <<>>

\* A grid with slots in both directions and a maximal run of two.
C18_Witness ==
    /\ Extracted
    /\ \E i, j \in 1..Len(slots) : slots[i].direction = "across" /\ slots[j].direction = "down"
    /\ \E direction \in {"across", "down"}, r \in 0..(fH - 1), c \in 0..(fW - 1) :
         MaximalRun(direction, r, c, 2)

\* The crossings of slot i at offset j of the slot.
CrossingsAt(i, j) ==
    {k \in 1..Len(slots[i].crossings) : slots[i].crossings[k].indexInSlot = j}

\* C19: every crossing of a slot names another slot, of the other
\* direction, with both offsets inside the slots' lengths and denoting one
\* and the same grid cell; and every cell that lies in an across slot and
\* in a down slot has exactly one crossing in each of the two.  The 3x3
\* cross has two slots of one crossing each.
C19_CrossingsSound ==
    Extracted =>
        /\ \A i \in 1..Len(slots) :
             \A k \in 1..Len(slots[i].crossings) :
                 LET x == slots[i].crossings[k]
                 IN /\ x.otherSlotIdx \in 1..Len(slots)
                    /\ x.otherSlotIdx # i
                    /\ slots[x.otherSlotIdx].direction # slots[i].direction
                    /\ x.indexInSlot \in 0..(slots[i].length - 1)
                    /\ x.indexInOtherSlot \in 0..(slots[x.otherSlotIdx].length - 1)
                    /\ SlotCell(slots[i], x.indexInSlot)
                         = SlotCell(slots[x.otherSlotIdx], x.indexInOtherSlot)
        /\ \A a, d \in 1..Len(slots) :
             (slots[a].direction = "across" /\ slots[d].direction = "down") =>
                 \A ja \in 0..(slots[a].length - 1), jd \in 0..(slots[d].length - 1) :
                     SlotCell(slots[a], ja) = SlotCell(slots[d], jd) =>
                         /\ Cardinality(CrossingsAt(a, ja)) = 1
                         /\ Cardinality(CrossingsAt(d, jd)) = 1
                         /\ \A k \in CrossingsAt(a, ja) : slots[a].crossings[k].otherSlotIdx = d
                         /\ \A k \in CrossingsAt(d, jd) : slots[d].crossings[k].otherSlotIdx = a
        /\ fTemplate = GridOf(SmallCross) =>
             /\ Len(slots) = 2
             /\ \A i \in 1..2 : Len(slots[i].crossings) = 1

\* A slot crossed at two cells or more and not crossed at another.
C19_Witness ==
    /\ Extracted
    /\ \E i \in 1..Len(slots) :
         /\ Len(slots[i].crossings) >= 2
         /\ Len(slots[i].crossings) < slots[i].length

\* ------------------------------------------------------------------------
\* findPlacements on a grid that holds the first word only
\* ------------------------------------------------------------------------
\* Longest word drawn; GridSize \div 2 at least, as 15 is to the working
\* grid of side 30.
MaxLetters == 3

Alphabet == {"C", "A", "T", "R"}

WordsUpTo(most) == UNION {[1..n -> Alphabet] : n \in 1..most}

P_Seed ==
    /\ ppc = "start"
    /\ LET centerRow == GridSize \div 2
           centerCol == (GridSize - Len(pSeed)) \div 2
       IN /\ pGrid' = placeWord(makeGrid(GridSize), pSeed, centerRow, centerCol, "across")
          /\ pPlaced' = <<GridWord(pSeed, centerRow, centerCol, "across")>>
    /\ ppc' = "seeded"
    /\ UNCHANGED <<pSeed, pWord, pCands>>
    /\ UNCHANGED NotPlacements

P_Find ==
    /\ ppc = "seeded"
    /\ pCands' = findPlacements(pGrid, GridSize, pPlaced, pWord, getValidWords) \o <<>>
    /\ ppc' = "found"
    /\ UNCHANGED <<pSeed, pWord, pGrid, pPlaced>>
    /\ UNCHANGED NotPlacements

InitPlacements ==
    /\ TemplateIdle
    /\ CacheIdle
    /\ FillinIdle
    /\ ClassicIdle
    /\ AsyncIdle
    /\ DriverIdle
    /\ wordlist \in ClassicDictionaries
    /\ pSeed \in WordsUpTo(MaxLetters)
    /\ pWord \in WordsUpTo(MaxLetters)
    /\ pGrid = <<>> /\ pPlaced = <<>> /\ pCands = <<>>
    /\ ppc = "start"

NextPlacements == P_Seed \/ P_Find

SpecPlacements == InitPlacements /\ [][NextPlacements]_vars

SharesLetter(a, b) == \E i \in 1..Len(a), j \in 1..Len(b) : a[i] = b[j]

\* A candidate that runs down through cell ei of the seed with its cell wi.
Through(cand, ei, wi) ==
    /\ cand.direction = "down"
    /\ cand.col = pPlaced[1].col + ei
    /\ cand.row = pPlaced[1].row - wi

\* C20: on a grid holding one seeded across word, findPlacements returns at
\* least one candidate for every word of at most half the grid side that
\* shares a letter with the seed; every candidate runs down through a cell
\* of the seed at which both words have the same letter; CAR against CAT
\* has a candidate through the C and one through the A.
C20_SeedCrossings ==
    ppc = "found" =>
        /\ (SharesLetter(pSeed, pWord) /\ Len(pWord) <= GridSize \div 2) => Len(pCands) >= 1
        /\ \A k \in 1..Len(pCands) :
             \E ei \in 0..(Len(pSeed) - 1), wi \in 0..(Len(pWord) - 1) :
                 /\ Through(pCands[k], ei, wi)
                 /\ pSeed[ei + 1] = pWord[wi + 1]
                 /\ pGrid[pPlaced[1].row][pPlaced[1].col + ei] = pWord[wi + 1]
        /\ (pSeed = <<"C", "A", "T">> /\ pWord = <<"C", "A", "R">>) =>
             /\ \E k \in 1..Len(pCands) : Through(pCands[k], 0, 0)
             /\ \E k \in 1..Len(pCands) : Through(pCands[k], 1, 1)

C20_Witness ==
    /\ ppc = "found"
    /\ pSeed = <<"C", "A", "T">>
    /\ pWord = <<"C", "A", "R">>
    /\ Len(pCands) = 2


\* ------------------------------------------------------------------------
\* The module-level caches: cachedPlayability and cachedEntries
\* (wordlist.ts), _validWords (crosswordGenerator.ts) and _cachedWords
\* (fillinGenerator.ts).  A text is the sequence of its characters.
\* ------------------------------------------------------------------------
DigitValue(ch) ==
    CASE ch = "0" -> 0 [] ch = "1" -> 1 [] ch = "2" -> 2 [] ch = "3" -> 3
      [] ch = "4" -> 4 [] ch = "5" -> 5 [] ch = "6" -> 6 [] ch = "7" -> 7
      [] ch = "8" -> 8 [] ch = "9" -> 9 [] OTHER -> -1

\* String.prototype.trim
trim(text) ==
    LET solid == {i \in 1..Len(text) : text[i] # " "}
    IN IF solid = {} THEN <<>>
       ELSE SubSeq(text, CHOOSE i \in solid : \A j \in solid : i <= j,
                         CHOOSE i \in solid : \A j \in solid : i >= j)

\* String.prototype.indexOf: the 0-based position of the first ch, or -1
indexOf(text, ch) ==
    LET hits == {i \in 1..Len(text) : text[i] = ch}
    IN IF hits = {} THEN -1 ELSE (CHOOSE i \in hits : \A j \in hits : i <= j) - 1

RECURSIVE Decimal(_)
Decimal(digits) ==
    IF digits = <<>> THEN 0
    ELSE 10 * Decimal(SubSeq(digits, 1, Len(digits) - 1))
         + DigitValue(digits[Len(digits)])

\* parseInt(text, 10): an optional sign and the longest run of digits after
\* it; NaN when there is no digit.
parseInt(text) ==
    LET signed == Len(text) > 0 /\ text[1] \in {"-", "+"}
        body == IF signed THEN Tail(text) ELSE text
        stop == {i \in 1..Len(body) : DigitValue(body[i]) < 0}
        n == IF stop = {} THEN Len(body)
             ELSE (CHOOSE i \in stop : \A j \in stop : i <= j) - 1
    IN IF n = 0 THEN [nan |-> TRUE, value |-> 0]
       ELSE [nan |-> FALSE,
             value |-> (IF signed /\ text[1] = "-" THEN -1 ELSE 1)
                       * Decimal(SubSeq(body, 1, n))]

\* One iteration of the loop of getPlayabilityMap: whether the line sets an
\* entry of the map, and which.
PlayabilityLine(line) ==
    LET trimmed == trim(line)
        spaceIdx == indexOf(trimmed, " ")
        score == parseInt(SubSeq(trimmed, 1, spaceIdx))
        word == trim(SubSeq(trimmed, spaceIdx + 2, Len(trimmed)))
    IN IF trimmed = <<>> \/ spaceIdx = -1
       THEN [set |-> FALSE, word |-> <<>>, score |-> 0]
       ELSE [set |-> word # <<>> /\ ~score.nan, word |-> word, score |-> score.value]

\* The Map getPlayabilityMap builds: a later line of a word replaces an
\* earlier one.
getPlayabilityMap(lines) ==
    LET parsed == [i \in 1..Len(lines) |-> PlayabilityLine(lines[i])] \o <<>>
        setters(w) == {i \in 1..Len(lines) : parsed[i].set /\ parsed[i].word = w}
        listed == {parsed[i].word : i \in {j \in 1..Len(lines) : parsed[j].set}}
    IN [w \in listed |->
          parsed[CHOOSE i \in setters(w) : \A j \in setters(w) : i >= j].score]

\* getPlayabilityMap().get(word) ?? 0
PlayabilityOf_NoDefault(map, word) ==
    IF word \in DOMAIN map THEN map[word] ELSE 1

PlayabilityOf(map, word) ==
    IF word \in DOMAIN map THEN map[word] ELSE 0

\* data.words.map(...): the entries parseWordlist builds
parseWordlist == [i \in 1..Len(wordlist) |-> [word |-> wordlist[i].word]]

\* `if (cached) return cached; cached = <fresh>; return cached`
Touch(cache, fresh) == IF cache.built THEN cache ELSE Built(fresh)

\* sort((a, b) => score(b) - score(a)) of a bucket: stable, descending.
SortBucket(q, map) ==
    LET before(i, j) ==
            \/ PlayabilityOf(map, q[i]) > PlayabilityOf(map, q[j])
            \/ (PlayabilityOf(map, q[i]) = PlayabilityOf(map, q[j]) /\ i < j)
        rank(i) == Cardinality({j \in 1..Len(q) : before(j, i)})
    IN [k \in 1..Len(q) |-> q[CHOOSE i \in 1..Len(q) : rank(i) = k - 1]] \o <<>>

\* byLen before sorting: the words of each length from MIN_SLOT_LENGTH to
\* MAX_WORD_LENGTH, in list order.
ByLength(entries) ==
    LET wordsOf(n) == SelectSeq([i \in 1..Len(entries) |-> entries[i].word],
                                LAMBDA w : Len(w) = n)
        lens == {n \in MIN_SLOT_LENGTH..MAX_WORD_LENGTH : Len(wordsOf(n)) > 0}
    IN [n \in lens |-> wordsOf(n)]

\* The buckets getWordsByLength builds from the entries, the playability map
\* and the cap.
WordsByLength_Unsorted(entries, map, cap) ==
    LET byLen == ByLength(entries)
    IN [n \in DOMAIN byLen |->
          IF Len(byLen[n]) > cap THEN SubSeq(byLen[n], 1, cap) ELSE byLen[n]]

WordsByLength(entries, map, cap) ==
    LET byLen == ByLength(entries)
    IN [n \in DOMAIN byLen |->
          LET sorted == SortBucket(byLen[n], map)
          IN IF Len(sorted) > cap THEN SubSeq(sorted, 1, cap) ELSE sorted]

\* The cap the buckets are cut to in the small runs.
SmallPerLength == 2

\* Playability files, as their lines.
PlayabilityFiles ==
    { << <<" ", " ", "5", "0", " ", "C", "A", "T">>,
         <<>>,
         <<"7", "0", " ", "A", "R", "T", " ">>,
         <<"T", "A", "R">>,
         <<"x", "9", " ", "R", "A", "T">>,
         <<"1", "2", " ", "R", "A", "T">>,
         <<"6", "0", " ", "C", "A", "R", "T">>,
         <<"-", "5", " ", "T", "A", "R", "T">>,
         <<"3", " ", "C", "A", "T">>,
         <<"8", " ", " ", "T", "A", "T">>,
         <<" ", " ">>,
         <<"9", "x", " ", "T", "A", "R">> >>,
      << <<>> >>,
      << <<"5", " ", "C", "A", "T">>, <<"5", " ", "A", "R", "T">>,
         <<"5", " ", "T", "A", "R">>, <<"5", " ", "R", "A", "T">> >> }

Sixteen == [i \in 1..16 |-> "A"]

\* Themed word lists (data.words), as their words.
ThemedLists ==
    { << <<"C", "A", "T">>, <<"A", "T">>, <<"A", "R", "T">>, <<"T", "A", "R">>,
         <<"R", "A", "T">>, <<"C", "A", "R", "T">>, <<"T", "A", "R", "T">>,
         <<"A", "R", "C">>, <<"R", "A", "T">>, Sixteen >>,
      <<>>,
      << <<"C", "A", "T">> >> }

\* The words the lookups are asked about: listed in both files, in the word
\* list only, in the playability file only, in neither.
QueryWords == { <<"C", "A", "T">>, <<"A", "R", "C">>, <<"T", "A", "T">>,
                <<"X", "Y", "Z">> }

InitCache ==
    /\ TemplateIdle /\ FillinIdle /\ ClassicIdle /\ AsyncIdle /\ DriverIdle
    /\ PlacementsIdle
    /\ rawPlayability \in PlayabilityFiles
    /\ \E words \in ThemedLists :
         wordlist = [i \in 1..Len(words) |->
                       [word |-> words[i],
                        play |-> PlayabilityOf(getPlayabilityMap(rawPlayability),
                                               words[i])]]
    /\ kCap \in {SmallPerLength, MAX_PER_LENGTH}
    /\ cachedPlayability = NoCache
    /\ cachedEntries = NoCache
    /\ validWords = NoCache
    /\ cachedWords = NoCache
    /\ kReturned = {}

\* The caches after a run that calls the getters named in `called`
\* ("parseWordlist", "getPlayabilityMap", "getValidWords",
\* "getWordsByLength"): each getter builds its cache when it is not built
\* and builds, through the getters it calls, the caches it reads.
CachesAfter(called) ==
    LET buildsValid == "getValidWords" \in called /\ ~validWords.built
        buildsWords == "getWordsByLength" \in called /\ ~cachedWords.built
        entries == IF "parseWordlist" \in called \/ buildsValid \/ buildsWords
                   THEN Touch(cachedEntries, parseWordlist) ELSE cachedEntries
        compares == buildsWords /\ \E n \in DOMAIN ByLength(entries.value) :
                                       Len(ByLength(entries.value)[n]) >= 2
        scores == IF "getPlayabilityMap" \in called \/ compares
                  THEN Touch(cachedPlayability, getPlayabilityMap(rawPlayability))
                  ELSE cachedPlayability
    IN [entries |-> entries,
        playability |-> scores,
        valid |-> IF buildsValid
                  THEN Built({entries.value[i].word : i \in 1..Len(entries.value)})
                  ELSE validWords,
        words |-> IF buildsWords
                  THEN Built(WordsByLength(entries.value, scores.value, kCap))
                  ELSE cachedWords]

Run(called) ==
    \E after \in {CachesAfter(called)} :
       /\ cachedEntries' = after.entries
       /\ cachedPlayability' = after.playability
       /\ validWords' = after.valid
       /\ cachedWords' = after.words

\* getPlayabilityScore(word)
K_GetPlayabilityScore ==
    /\ \E word \in QueryWords :
         /\ Run({"getPlayabilityMap"})
         /\ kReturned' = kReturned \cup
               {<<"getPlayabilityScore", word,
                  PlayabilityOf(cachedPlayability'.value, word)>>}
    /\ UNCHANGED <<rawPlayability, kCap, wordlist>>
    /\ UNCHANGED NotCache

\* parseWordlist()
K_ParseWordlist ==
    /\ Run({"parseWordlist"})
    /\ UNCHANGED <<rawPlayability, kCap, kReturned, wordlist>>
    /\ UNCHANGED NotCache

\* getValidWords().has(word)
K_HasValidWord ==
    /\ \E word \in QueryWords :
         /\ Run({"getValidWords"})
         /\ kReturned' = kReturned \cup
               {<<"getValidWords", word, word \in validWords'.value>>}
    /\ UNCHANGED <<rawPlayability, kCap, wordlist>>
    /\ UNCHANGED NotCache

\* getWordsByLength()
K_GetWordsByLength ==
    /\ Run({"getWordsByLength"})
    /\ UNCHANGED <<rawPlayability, kCap, kReturned, wordlist>>
    /\ UNCHANGED NotCache

\* generateCrossword(words, algorithm): a strategy reaches the caches only
\* through getValidWords, parseWordlist and getPlayabilityScore, and how far
\* it gets before it returns or throws decides which of them it calls.
K_GenerateCrossword ==
    /\ \E called \in SUBSET {"getValidWords", "parseWordlist", "getPlayabilityMap"} :
         Run(called)
    /\ UNCHANGED <<rawPlayability, kCap, kReturned, wordlist>>
    /\ UNCHANGED NotCache

\* generateFillinSmart(): getWordsByLength first, getPlayabilityScore when a
\* result is assembled.
K_GenerateFillinSmart ==
    /\ \E called \in {{"getWordsByLength"}, {"getWordsByLength", "getPlayabilityMap"}} :
         Run(called)
    /\ UNCHANGED <<rawPlayability, kCap, kReturned, wordlist>>
    /\ UNCHANGED NotCache

NextCache ==
    \/ K_GetPlayabilityScore
    \/ K_ParseWordlist
    \/ K_HasValidWord
    \/ K_GetWordsByLength
    \/ K_GenerateCrossword
    \/ K_GenerateFillinSmart

SpecCache == InitCache /\ [][NextCache]_vars

\* ---- Properties of the caches ---------------------------------------------
\* The word is named by a line of the playability file that sets an entry.
Listed(word) ==
    \E i \in 1..Len(rawPlayability) :
       PlayabilityLine(rawPlayability[i]).set
       /\ PlayabilityLine(rawPlayability[i]).word = word

\* Every lookup of a word has returned the same value, and a word the
\* playability file does not list has scored 0.
SameAnswers ==
    /\ \A a \in kReturned, b \in kReturned :
          (a[1] = b[1] /\ a[2] = b[2]) => a[3] = b[3]
    /\ \A a \in kReturned :
          (a[1] = "getPlayabilityScore" /\ ~Listed(a[2])) => a[3] = 0

\* A cache that is built keeps its value in the step.
Frozen ==
    /\ cachedPlayability.built => cachedPlayability' = cachedPlayability
    /\ cachedEntries.built => cachedEntries' = cachedEntries
    /\ validWords.built => validWords' = validWords
    /\ cachedWords.built => cachedWords' = cachedWords

\* C21: getPlayabilityScore(w) and the membership of w in the valid-word set
\* return the same value on every call, whatever runs of generateCrossword
\* and generateFillinSmart lie between the calls: each of the four caches is
\* built on first use and no step changes a built cache; a word absent from
\* the playability list always scores 0.
C21_CachesStable == []SameAnswers /\ [][Frozen]_vars

\* All four caches are built and lookups have been answered for a listed
\* word (by its last line), for a word of the word list the playability file
\* does not list, and for a word of neither.
C21_Witness ==
    /\ cachedPlayability.built /\ cachedEntries.built
    /\ validWords.built /\ cachedWords.built
    /\ <<"getPlayabilityScore", <<"C", "A", "T">>, 3>> \in kReturned
    /\ <<"getPlayabilityScore", <<"A", "R", "C">>, 0>> \in kReturned
    /\ <<"getPlayabilityScore", <<"T", "A", "T">>, 8>> \in kReturned
    /\ <<"getValidWords", <<"A", "R", "C">>, TRUE>> \in kReturned
    /\ <<"getValidWords", <<"T", "A", "T">>, FALSE>> \in kReturned

\* The words of length n of the word list, in list order, and how often a
\* word occurs in a sequence.
SourceOfLength(n) ==
    SelectSeq([i \in 1..Len(wordlist) |-> wordlist[i].word], LAMBDA w : Len(w) = n)

Occurrences(q, w) == Cardinality({i \in 1..Len(q) : q[i] = w})

\* C22: every bucket n of getWordsByLength holds only words of length n with
\* 3 <= n <= 15, in order of non-increasing playability, and at most
\* MAX_PER_LENGTH of them; when the word list has more words of length n,
\* the bucket holds MAX_PER_LENGTH of them and no word left out has a
\* strictly higher playability than a word kept.
C22_BucketsSortedAndCapped ==
    cachedWords.built =>
      \E map \in {getPlayabilityMap(rawPlayability)} :
        \A n \in DOMAIN cachedWords.value :
          \E bucket \in {cachedWords.value[n]}, source \in {SourceOfLength(n)} :
            /\ MIN_SLOT_LENGTH <= n /\ n <= MAX_WORD_LENGTH
            /\ \A i \in 1..Len(bucket) : Len(bucket[i]) = n
            /\ \A i \in 1..Len(bucket), j \in 1..Len(bucket) :
                  i < j => PlayabilityOf(map, bucket[i]) >= PlayabilityOf(map, bucket[j])
            /\ Len(bucket) <= kCap
            /\ \A i \in 1..Len(bucket) :
                  Occurrences(bucket, bucket[i]) <= Occurrences(source, bucket[i])
            /\ Len(source) > kCap =>
                 /\ Len(bucket) = kCap
                 /\ \A i \in 1..Len(source) :
                       Occurrences(source, source[i]) > Occurrences(bucket, source[i])
                       => \A k \in 1..Len(bucket) :
                             PlayabilityOf(map, source[i]) <= PlayabilityOf(map, bucket[k])

\* The buckets are built with the small cap from a list with more
\* three-letter words than the cap, of which the most playable (ART) is not
\* the first of the list, and with words of two and of sixteen letters.
C22_Witness ==
    /\ cachedWords.built
    /\ kCap = SmallPerLength
    /\ 3 \in DOMAIN cachedWords.value
    /\ Len(SourceOfLength(3)) > kCap
    /\ Len(cachedWords.value[3]) = kCap
    /\ cachedWords.value[3][1] = <<"A", "R", "T">>
    /\ wordlist[1].word # <<"A", "R", "T">>
    /\ Len(SourceOfLength(2)) > 0 /\ Len(SourceOfLength(16)) > 0
    /\ DOMAIN cachedWords.value = {3, 4}

\* ---- Properties of the working grid of the classic strategies -------------
\* The cell of the working grid, empty outside the grid.
WorkingCell(grid, r, c) ==
    IF r \in 0..(GridSize - 1) /\ c \in 0..(GridSize - 1) THEN grid[r][c] ELSE NullCell

WorkingLineCell(grid, r, c, direction, i) ==
    WorkingCell(grid, WordCell(r, c, direction, i)[1], WordCell(r, c, direction, i)[2])

\* n letters from (r, c) in the direction form a maximal run of the grid.
IsMaximalRun(grid, r, c, direction, n) ==
    /\ \A i \in 0..(n - 1) : WorkingLineCell(grid, r, c, direction, i) # NullCell
    /\ WorkingLineCell(grid, r, c, direction, -1) = NullCell
    /\ WorkingLineCell(grid, r, c, direction, n) = NullCell

LettersOfRun(grid, r, c, direction, n) ==
    [i \in 1..n |-> WorkingLineCell(grid, r, c, direction, i - 1)]

\* Every maximal run of two or more letters is a placed word at that place
\* or a dictionary word.
RunsAreWords ==
    cGrid # <<>> =>
      \A direction \in {"across", "down"}, r \in 0..(GridSize - 1),
         c \in 0..(GridSize - 1), n \in 2..GridSize :
         IsMaximalRun(cGrid, r, c, direction, n) =>
            \/ \E k \in 1..Len(cPlaced) :
                  cPlaced[k] = GridWord(LettersOfRun(cGrid, r, c, direction, n),
                                        r, c, direction)
            \/ LettersOfRun(cGrid, r, c, direction, n) \in getValidWords

\* C23: after any sequence of placements of a classic strategy every maximal
\* horizontal or vertical run of two or more letters of the working grid is
\* a placed word lying at exactly that position and direction, or a word of
\* the dictionary.
C23_RunsAreWords == RunsAreWords

\* The cells next to the two ends of every placed word, in its direction,
\* are empty or outside the grid.
EndsAreFree ==
    cGrid # <<>> =>
      \A k \in 1..Len(cPlaced) :
         /\ WorkingLineCell(cGrid, cPlaced[k].row, cPlaced[k].col,
                            cPlaced[k].direction, -1) = NullCell
         /\ WorkingLineCell(cGrid, cPlaced[k].row, cPlaced[k].col,
                            cPlaced[k].direction, Len(cPlaced[k].word)) = NullCell


\* C24: no existing word is ever lengthened: after any sequence of placements
\* of a classic strategy the cell before the first letter and the cell after
\* the last letter of every placed word, in the word's direction, is empty
\* or outside the grid.
C24_NoWordLengthened == EndsAreFree


\* ---- Properties of the backtrack cap --------------------------------------
\* solve is synchronous code: a search that has started runs to its return.
SolveStep == S_Enter \/ S_Try \/ S_Exhausted \/ S_Return \/ S_Backtrack

FairFillin == SpecFillin /\ WF_vars(SolveStep)

InSolve == fpc \in {"enter", "loop", "backtrack", "return"}

\* The backtrack counter has reached maxBacktracks.
Capped == bt > 0 /\ bt >= maxBacktracks

SameWords(a, b) == SeqToSet(a) = SeqToSet(b)

\* A step of a capped search assigns no word; the undo that reaches the cap,
\* and every undo after it, clears the level's own slot, gives the word back,
\* restores the domains the level pruned and returns false.
CappedStep ==
    /\ (InSolve /\ Capped) =>
          \A i \in 1..Len(assignments) : assignments'[i] \in {Null, assignments[i]}
    /\ (fpc = "backtrack" /\ bt' > bt /\ bt' >= maxBacktracks) =>
          /\ assignments'[Top.idx] = Null
          /\ Top.word \notin usedWords'
          /\ \A i \in 1..Len(domains) : SameWords(domains'[i], Top.before[i])
          /\ stack' = Pop /\ fpc' = "return" /\ fRet' = FALSE

\* The outermost call of a capped search has returned false with every slot
\* unassigned again.
CappedEnd ==
    (fpc = "solved" /\ Capped) =>
       /\ ~fRet
       /\ assignments = AllNull(slots)
       /\ usedWords = {}
       /\ \A i \in 1..Len(domains) : SameWords(domains[i], InitialDomains(slots)[i])

\* C25: once the backtrack counter reaches maxBacktracks during solve the
\* search is aborted as failed: no further candidate is assigned to any slot,
\* every active level undoes its own assignment and restores the domains it
\* pruned, and the outermost call returns false.
C25_CapAborts ==
    /\ [][CappedStep]_vars
    /\ []CappedEnd
    /\ ((InSolve /\ Capped) ~> (fpc = "solved" /\ ~fRet))

\* The cap was reached below a level that still has candidates to try, and
\* that level is about to undo its assignment.
C25_Witness ==
    /\ fpc = "backtrack" /\ Capped
    /\ Len(stack) >= 1
    /\ (Top.top # {} \/ Len(Top.rest) > 0)


\* ---- Properties of the best partial --------------------------------------
\* The most slots a template of the runs has.
MostSlots == 6

\* best.assignments has exactly best.filledCount words.
BestCounted == FilledCount(best.assignments) = best.filledCount

\* C26: when solve returns, best.filledCount is the greatest number of
\* simultaneously filled slots state.assignments held at any point of the
\* search (whenever k slots were filled, the best partial of the returned
\* search counts at least k), and best.assignments holds exactly
\* best.filledCount words.
C26_BestIsGreatest ==
    /\ \A k \in 1..MostSlots :
          []((InSolve /\ FilledCount(assignments) = k)
                => [](fpc = "solved" => best.filledCount >= k))
    /\ [](fpc = "solved" => BestCounted)


\* C27: solve returns true only in a state where every slot is assigned, each
\* assigned word has the length of its slot and comes from the slot's initial
\* domain, the assigned words are pairwise distinct, and the two words of
\* every crossing agree on the shared letter.
C27_TrueMeansSolved ==
    (fpc \in {"return", "solved"} /\ fRet) =>
       /\ \E initial \in {InitialDomains(slots) \o <<>>} : \A i \in 1..Len(slots) :
             /\ assignments[i] # Null
             /\ Len(assignments[i]) = slots[i].length
             /\ assignments[i] \in SeqToSet(initial[i])
       /\ \A i \in 1..Len(slots), j \in 1..Len(slots) :
             i # j => assignments[i] # assignments[j]
       /\ \A i \in 1..Len(slots) : \A k \in 1..Len(slots[i].crossings) :
             Letter(assignments[i], slots[i].crossings[k].indexInSlot)
               = Letter(assignments[slots[i].crossings[k].otherSlotIdx],
                        slots[i].crossings[k].indexInOtherSlot)

\* The outermost call has returned true for the six slots of the open grid,
\* after at least one backtrack.
C27_Witness ==
    /\ fpc = "solved" /\ fRet /\ Len(stack) = 0
    /\ Len(slots) = MostSlots
    /\ bt > 0


\* ---- Properties of forward checking ---------------------------------------
\* The step assigns a word to the slot of the innermost call.
Assigns == fpc = "loop" /\ assignments' # assignments

\* The crossings of slot s with slot o.
CrossingsWith(s, o) ==
    {k \in 1..Len(slots[s].crossings) : slots[s].crossings[k].otherSlotIdx = o}

\* The words of domain d that carry letter x at position pos.
Agreeing(d, pos, x) == {v \in SeqToSet(d) : Letter(v, pos) = x}

\* The step that assigns w to s prunes the domains as C28 says, and goes to
\* the undo when a domain it pruned is empty.
PrunesExactly ==
    Assigns =>
      \E s \in {Top.idx} : \E w \in {assignments'[s]} :
        /\ \A o \in 1..Len(slots) :
              IF CrossingsWith(s, o) # {} /\ assignments[o] = Null
              THEN \A k \in CrossingsWith(s, o) :
                      SeqToSet(domains'[o])
                        = Agreeing(domains[o], slots[s].crossings[k].indexInOtherSlot,
                                   Letter(w, slots[s].crossings[k].indexInSlot))
              ELSE domains'[o] = domains[o]
        /\ (\E o \in 1..Len(slots) :
               /\ SeqToSet(domains'[o]) # SeqToSet(domains[o])
               /\ domains'[o] = <<>>)
           => /\ fpc' = "backtrack"
              /\ Len(stack') = Len(stack)

\* The undo is the step that follows: it clears the slot of the assignment.
UndoesAtOnce == fpc = "backtrack" => assignments'[Top.idx] = Null

\* C28: after solve assigns w to slot s, forwardCheck has removed from the
\* domain of each unassigned crossing neighbour exactly the words whose letter
\* at the crossing differs from w's, has left the domains of assigned
\* neighbours and of non-neighbours as they were, and when a pruned domain is
\* empty solve does not recurse under the assignment but undoes it at once.
C28_ForwardCheckExact == [][PrunesExactly /\ UndoesAtOnce]_vars

\* A word has just been assigned to a slot that has an assigned neighbour and
\* an unassigned one; the forward check pruned a domain to nothing and the
\* call is about to undo the assignment.
C28_Witness ==
    /\ fpc = "backtrack"
    /\ assignments[Top.idx] = Top.word
    /\ \E k \in 1..Len(Top.pruned) : domains[Top.pruned[k].otherSlotIdx] = <<>>
    /\ \E k \in 1..Len(slots[Top.idx].crossings) :
          assignments[slots[Top.idx].crossings[k].otherSlotIdx] # Null
    /\ \E k \in 1..Len(slots[Top.idx].crossings) :
          /\ assignments[slots[Top.idx].crossings[k].otherSlotIdx] = Null
          /\ domains[slots[Top.idx].crossings[k].otherSlotIdx] # <<>>


\* ---- Properties of the slot selection ------------------------------------
Unassigned == {i \in 1..Len(assignments) : assignments[i] = Null}

\* C29: selectSlot returns -1 exactly when every slot is assigned; otherwise
\* it returns an unassigned slot whose domain is of minimal size among the
\* unassigned slots and which has the most crossings among the unassigned
\* slots of that size.
C29_SelectSlotMRV ==
    InSolve =>
      \E idx \in {selectSlot(assignments, domains, slots)} :
         /\ (idx = -1) <=> (Unassigned = {})
         /\ idx # -1 =>
              /\ idx \in Unassigned
              /\ \A j \in Unassigned : Len(domains[idx]) <= Len(domains[j])
              /\ \A j \in Unassigned :
                    Len(domains[j]) = Len(domains[idx])
                    => Len(slots[idx].crossings) >= Len(slots[j].crossings)

\* A call of solve is entered where the slot selected is not the first
\* unassigned slot of the smallest domain: an earlier unassigned slot has a
\* domain of the same size and fewer crossings.
C29_Witness ==
    /\ fpc = "enter"
    /\ \E idx \in {selectSlot(assignments, domains, slots)} :
         /\ idx # -1
         /\ \E j \in Unassigned :
               /\ j < idx /\ Len(domains[j]) = Len(domains[idx])
               /\ Len(slots[j].crossings) < Len(slots[idx].crossings)


\* ---- The order of the candidates ----------------------------------------
\* The shuffle bound scaled down, so that word lists of a few words have
\* candidates behind the shuffled ones.
SmallShuffle == 1

\* The word lists of SpecFillin and one of six words, listed as its bucket is
\* (descending playability), whose search on the open 3x3 grid restores a
\* domain and then asks for the candidates of that slot.
OrderDictionaries ==
    Dictionaries \cup
    { << Entry("B", "A", "B", 6), Entry("B", "B", "A", 5), Entry("A", "B", "A", 4),
         Entry("A", "B", "B", 3), Entry("B", "B", "B", 2), Entry("B", "A", "A", 1) >> }

\* The searches of SpecFillin with the shuffle bound scaled down.
InitOrder ==
    /\ TemplateIdle
    /\ CacheIdle
    /\ AsyncIdle
    /\ PlacementsIdle
    /\ DriverIdle
    /\ ClassicIdle
    /\ \E rows \in Templates :
         /\ fTemplate = GridOf(rows)
         /\ fW = Len(rows[1])
         /\ fH = Len(rows)
    /\ wordlist \in OrderDictionaries
    /\ maxBacktracks \in Caps
    /\ shuffleTop = SmallShuffle
    /\ slots = <<>>
    /\ assignments = <<>>
    /\ domains = <<>>
    /\ usedWords = {}
    /\ bt = 0
    /\ best = [assignments |-> <<>>, filledCount |-> 0]
    /\ stack = <<>>
    /\ fpc = "start"
    /\ fRet = FALSE
    /\ gResult = <<>>
    /\ gUsed = {}
    /\ gProgress = FALSE
    /\ gQueue = <<>>
    /\ fResult = <<>>

SpecOrder == InitOrder /\ [][NextFillin]_vars

\* The words of q are in descending order of playability.
DescendingPlayability(q) ==
    \A i \in 1..Len(q) : \A j \in (i + 1)..Len(q) :
        getPlayabilityScore(q[i]) >= getPlayabilityScore(q[j])

\* solve is about to call getOrderedCandidates for a slot.
CallsOrdered == fpc = "enter" /\ selectSlot(assignments, domains, slots) # -1

\* C30: in every call of getOrderedCandidates during solve, also after
\* backtracks have restored domains, the candidates behind the shuffled
\* first min(shuffleTop, n) are in descending order of playability.
C30_TailDescending ==
    CallsOrdered =>
        LET idx == selectSlot(assignments, domains, slots)
            cand == getOrderedCandidates(idx, slots, assignments, domains, usedWords)
        IN DescendingPlayability(cand.rest)


\* ---- greedyPatch --------------------------------------------------------
\* greedyPatch is running: between its entry and its return.
InPatch == fpc \in {"gp_while", "gp_for"}

\* The assignment greedyPatch is given (best.assignments: it is called after a
\* solve that returned false).
PatchInput == best.assignments

\* A step of greedyPatch leaves every assigned slot of its result as it is.
PatchKeeps ==
    \A i \in 1..Len(gResult) : gResult[i] # Null => gResult'[i] = gResult[i]

\* A word a step of greedyPatch adds has the slot's length, is in no other slot
\* of the result and agrees with the crossing slots filled before the step.
PatchAddsFitting ==
    \A i \in 1..Len(gResult) :
        (gResult[i] = Null /\ gResult'[i] # Null) =>
            /\ Len(gResult'[i]) = slots[i].length
            /\ \A j \in 1..Len(gResult') : j # i => gResult'[j] # gResult'[i]
            /\ MatchesPattern(i, gResult'[i], gResult)

\* C31: greedyPatch never changes or clears a slot that is assigned in the
\* assignment it is given and does not mutate that array; every word it adds
\* has the slot's length, is used by no other slot of the result and agrees
\* with every crossing slot that is filled when it is added.
C31_PatchOnlyAdds ==
    /\ [][InPatch => (PatchKeeps /\ PatchAddsFitting /\ best' = best
                        /\ assignments' = assignments)]_vars
    /\ [](InPatch => \A i \in 1..Len(PatchInput) :
                        PatchInput[i] # Null => gResult[i] = PatchInput[i])

\* greedyPatch has added a word across a filled slot to an input that holds a
\* word, while a word of the bucket is in use.
C31_Witness ==
    /\ InPatch
    /\ \E i \in 1..Len(gResult) :
         /\ PatchInput[i] = Null /\ gResult[i] # Null
         /\ \E k \in 1..Len(slots[i].crossings) :
              PatchInput[slots[i].crossings[k].otherSlotIdx] # Null
    /\ \E i \in 1..Len(gResult) : PatchInput[i] # Null


\* The steps of greedyPatch; the function runs to its end once it is called.
PatchStep == GP_Pass \/ GP_Slot \/ GP_EndPass

FairPatch == SpecFillin /\ WF_vars(PatchStep)

\* The words of the slot's length bucket that no slot of the result holds and
\* that agree with the slot's filled crossings.
PatchChoices(i, result) ==
    LET words == IF slots[i].length \in DOMAIN getWordsByLength
                 THEN getWordsByLength[slots[i].length] ELSE <<>>
    IN {w \in {words[n] : n \in 1..Len(words)} :
            /\ \A j \in 1..Len(result) : result[j] # w
            /\ MatchesPattern(i, w, result)}

\* greedyPatch has returned (its result goes to assembleResult).
PatchReturned == fpc = "assemble" /\ ~fRet

\* C32: greedyPatch always terminates, never un-assigns a slot, and returns a
\* fix-point: on return no unfilled slot has an unused word of its length
\* bucket that matches all of the slot's fixed crossing letters.
C32_PatchFixPoint ==
    /\ InPatch ~> PatchReturned
    /\ [][InPatch => \A i \in 1..Len(gResult) :
                        gResult[i] # Null => gResult'[i] # Null]_vars
    /\ [](PatchReturned => \A i \in 1..Len(gResult) :
                              gResult[i] = Null => PatchChoices(i, gResult) = {})

\* greedyPatch has returned after a pass that added a word, with a slot left
\* unfilled although its bucket holds unused words.
C32_Witness ==
    /\ PatchReturned
    /\ \E i \in 1..Len(gResult) : gResult[i] # Null /\ PatchInput[i] = Null
    /\ \E i \in 1..Len(gResult) :
         /\ gResult[i] = Null
         /\ PatchChoices(i, AllNull(slots)) \ {gResult[j] : j \in 1..Len(gResult)} # {}


\* ---- placeBlackPair -----------------------------------------------------
\* Every white cell is reached from the last white cell through white
\* 4-neighbours.
WhitesConnected(grid) ==
    \E whites \in {WhiteCells(grid, tW, tH)} :
        whites # {} =>
            \E a \in {LastCell(whites)} : Flood(whites, {a}, {a}) = whites

\* The step has called placeBlackPair(grid, r, c) and it returned true: the
\* cell and its 180-degree partner are black, the other cells are as before,
\* and the grid has no short run and connected whites.
AcceptedPair ==
    LET r == tLast'.r
        c == tLast'.c
        sr == tH - 1 - r
        sc == tW - 1 - c
    IN /\ tGrid[r][c] /\ tGrid[sr][sc]
       /\ ~tGrid'[r][c] /\ ~tGrid'[sr][sc]
       /\ \A i \in TRows, j \in TCols :
            (<<i, j>> \notin {<<r, c>>, <<sr, sc>>}) => tGrid'[i][j] = tGrid[i][j]
       /\ NoShortRun'
       /\ \E grid \in {tGrid'} : WhitesConnected(grid)

\* C33: placeBlackPair returns true only if, with (r,c) and its 180-degree
\* partner blackened, the grid has no white run of length 1 or 2 and its
\* whites are connected; whenever it returns false the grid is cell for cell
\* the grid before the call.
C33_PairPlacedOrReverted ==
    [][tLast'.called => IF tLast'.ok THEN AcceptedPair ELSE tGrid' = tGrid]_vars

\* A call on a white cell with a white partner was rejected by the short-run
\* check alone, after an accepted pair.
C33_Witness ==
    /\ SomeBlack
    /\ tLast.called /\ ~tLast.ok
    /\ tGrid[tLast.r][tLast.c] /\ tGrid[tH - 1 - tLast.r][tW - 1 - tLast.c]
    /\ placeBlackPair_NoSlotCheck(tGrid, tLast.r, tLast.c, tW, tH).ok


\* ---- The retry queue of the classic strategies ---------------------------
PlacementLoops == {"main", "retry", "seeds", "grow", "final"}

\* A step attempts the word at the head of the queue and does not place it.
FailedAttempt ==
    /\ cpc \in PlacementLoops /\ Len(cQueue) > 0
    /\ cQueue' = Tail(cQueue)
    /\ cPlaced' = cPlaced

\* The placement loops end with words left over: the strategy goes on to gap
\* filling or finalize without them.
GivesUp ==
    /\ cpc \in PlacementLoops /\ cpc' \notin PlacementLoops
    /\ Len(cQueue) = 0 /\ Len(cUnplaced) > 0

\* The input words that are not on the grid have no placement on it.
AbsentAreUnplaceable ==
    \A i \in 1..Len(cWords) :
        (\A k \in 1..Len(cPlaced) : cPlaced[k].word # cWords[i]) =>
            Len(findPlacements(cGrid, GridSize, cPlaced, cWords[i], getValidWords)) = 0

\* C34: in each classic strategy a word that cannot be placed when attempted
\* is collected into the retry queue, and the words of the queue are given up
\* only after 2 to 3 retry passes; when the placement loops are over only
\* words without a placement are missing, and missing words are no error.
C34_UnplacedRetried ==
    /\ [][FailedAttempt => cUnplaced' = Append(cUnplaced, Head(cQueue))]_vars
    /\ [][GivesUp => (cpc = "retry" /\ cPass + 1 \in {2, 3})]_vars
    /\ [](cpc \in {"finalize", "gaprows"} => AbsentAreUnplaceable)
    /\ [](cpc = "threw" => Len(cWords) = 0)


\* ---- Failures of the worker transport and of the progress callback ------
MaxFaults == 1

\* A message posted in either direction is not delivered (the receiver gets a
\* "messageerror" event, or the worker is gone): no "message" event is
\* dispatched for it.  Neither side registers a listener for "error" or
\* "messageerror", so nothing else happens.
X_MessageLost ==
    /\ Len(aFaults) < MaxFaults
    /\ \/ /\ Len(aToWorker) > 0
          /\ aFaults' = Append(aFaults, [kind |-> "transport", id |-> Head(aToWorker).id])
          /\ aToWorker' = Tail(aToWorker)
          /\ UNCHANGED aToMain
       \/ /\ Len(aToMain) > 0
          /\ aFaults' = Append(aFaults, [kind |-> "transport", id |-> Head(aToMain).id])
          /\ aToMain' = Tail(aToMain)
          /\ UNCHANGED aToWorker
    /\ UNCHANGED <<aRequestId, aCalls, aListeners, wCur, wProgress, wPosted, wHandled>>
    /\ UNCHANGED NotAsync

\* A "message" event with a progress message whose onProgress callback
\* throws: the exception leaves the handler of that call and is reported by
\* the event loop; the other handlers run, no promise is settled and no
\* listener is removed.
M_DispatchThrows ==
    /\ Len(aFaults) < MaxFaults
    /\ Len(aToMain) > 0
    /\ Head(aToMain).type = "progress"
    /\ \E n \in 1..Len(aListeners) : aCalls[aListeners[n]].id = Head(aToMain).id
    /\ aCalls' = [k \in 1..Len(aCalls) |->
                    IF \E n \in 1..Len(aListeners) : aListeners[n] = k
                    THEN handler(aCalls[k], Head(aToMain))
                    ELSE aCalls[k]]
    /\ aFaults' = Append(aFaults, [kind |-> "callback", id |-> Head(aToMain).id])
    /\ aToMain' = Tail(aToMain)
    /\ UNCHANGED <<aRequestId, aListeners, aToWorker, wCur, wProgress, wPosted, wHandled>>
    /\ UNCHANGED NotAsync

NextFaulty == NextAsync \/ X_MessageLost \/ M_DispatchThrows

SpecFaulty == InitAsync /\ [][NextFaulty]_vars

\* The worker runs each request to its end and the event loop dispatches the
\* messages that are delivered.
FairFaulty == SpecFaulty /\ WF_vars(W_Receive) /\ WF_vars(W_Finish) /\ WF_vars(M_Dispatch)

\* Request k was in flight when a failure hit one of its messages or its
\* progress callback.
Faulted(k) ==
    /\ k <= Len(aCalls)
    /\ \E n \in 1..Len(aFaults) : aFaults[n].id = aCalls[k].id

\* Request k was issued after a failure and none of its own messages failed.
IssuedAfterFault(k) ==
    /\ k <= Len(aCalls)
    /\ Len(aFaults) > 0
    /\ \A n \in 1..Len(aFaults) : aFaults[n].id < aCalls[k].id

IsRejected(k) == k <= Len(aCalls) /\ aCalls[k].state = "rejected"

\* The promise of request k is settled, by a message that carries its id.
IsAnswered(k) ==
    /\ k <= Len(aCalls)
    /\ aCalls[k].state # "pending"
    /\ Len(aCalls[k].settledBy) > 0
    /\ aCalls[k].settledBy[1].id = aCalls[k].id

\* C35: when the worker transport fails or a progress callback throws while a
\* request is in flight, the promise of that request is rejected, it does not
\* stay pending for ever; a request issued afterwards is answered with its
\* own result or error.
C35_FailureRejects ==
    /\ \A k \in 1..MaxCalls : [](Faulted(k) => <>IsRejected(k))
    /\ \A k \in 1..MaxCalls : [](IssuedAfterFault(k) => <>IsAnswered(k))


\* ---- The fillers of the gap-filling pass --------------------------------
\* The grid after the words first..last of a placed list are written on it.
RECURSIVE WrittenOn(_, _, _, _)
WrittenOn(grid, placed, first, last) ==
    IF last < first THEN grid
    ELSE placeWord(WrittenOn(grid, placed, first, last - 1), placed[last].word,
                   placed[last].row, placed[last].col, placed[last].direction)

\* The filler w is a legal one on the grid it was placed on, given the words
\* placed before it.
FillerFits(alg, grid, earlier, w) ==
    LET cell(i) == LET rc == WordCell(w.row, w.col, w.direction, i)
                   IN grid[rc[1]][rc[2]]
        n == Len(w.word)
    IN /\ n >= 3 /\ n <= 15
       /\ Cardinality({i \in 0..(n - 1) : cell(i) # NullCell}) >= 2
       /\ \A k \in 1..Len(earlier) : earlier[k].word # w.word
       /\ \A i \in 0..(n - 1) : cell(i) = NullCell \/ cell(i) = w.word[i + 1]
       /\ isValidPlacement(grid, GridSize, w.word, w.row, w.col, w.direction,
                           getValidWords)
       /\ (alg = "smart" => getPlayabilityScore(w.word) >= 100)

\* Every word a step of the gap-filling pass places is a legal filler on the
\* grid as it was when that word was written.
FillersOfStepFit ==
    cpc \in {"gaprows", "gapcols"} =>
        \A k \in (Len(cPlaced) + 1)..Len(cPlaced') :
            \E grid \in {WrittenOn(cGrid, cPlaced', Len(cPlaced) + 1, k - 1)} :
                FillerFits(cAlg, grid, SubSeq(cPlaced', 1, k - 1), cPlaced'[k])

\* C36: every filler word placed by the gap-filling pass of fitted and smart
\* has 3 to 15 letters, covers at least two cells that already held a letter,
\* is not among the words placed before it, agrees with every known letter of
\* its run and is a valid placement at the moment it is placed; in smart its
\* playability is at least 100.
C36_FillersFit == [][FillersOfStepFit]_vars

\* The gap-filling pass of smart has placed a filler, a word that is not in
\* the input list.
C36_Witness ==
    /\ cAlg = "smart" /\ cTag = "smart"
    /\ cpc \in {"gaprows", "gapcols", "finalize"}
    /\ \E k \in 1..Len(cPlaced) : \A i \in 1..Len(cWords) : cWords[i] # cPlaced[k].word


\* The cells of the working grid that hold a letter.
LetterCells(grid) ==
    {rc \in (0..(GridSize - 1)) \X (0..(GridSize - 1)) : grid[rc[1]][rc[2]] # NullCell}

\* The letters of the grid are one 4-neighbour connected region.
LettersConnected(grid) ==
    \E cells \in {LetterCells(grid)} :
        cells # {} => \E a \in {LastCell(cells)} : Flood(cells, {a}, {a}) = cells

\* Every word a step adds to a non-empty grid lies on at least one cell that
\* held a letter before the word was written.
AddedWordsTouch ==
    (cGrid # <<>> /\ cGrid' # <<>> /\ Len(cPlaced) >= 1
        /\ SubSeq(cPlaced', 1, Min(Len(cPlaced), Len(cPlaced'))) = cPlaced) =>
        \A k \in (Len(cPlaced) + 1)..Len(cPlaced') :
            \E grid \in {WrittenOn(cGrid, cPlaced', Len(cPlaced) + 1, k - 1)} :
                \E i \in 0..(Len(cPlaced'[k].word) - 1) :
                    WordCell(cPlaced'[k].row, cPlaced'[k].col,
                             cPlaced'[k].direction, i) \in LetterCells(grid)

\* Every candidate findPlacements returns for a word of the input on the
\* working grid, once it holds a letter, has at least one intersection.
CandidatesIntersect ==
    (cGrid # <<>> /\ LetterCells(cGrid) # {}) =>
        \A w \in 1..Len(cWords) :
            \E cands \in {findPlacements(cGrid, GridSize, cPlaced, cWords[w],
                                         getValidWords)} :
                \A k \in 1..Len(cands) : cands[k].intersections >= 1

\* C37: after any sequence of placements by a classic strategy the filled
\* cells of the working grid are one 4-neighbour connected region: every word
\* placed after the seed shares an already filled cell with the grid, and
\* every candidate findPlacements returns on a non-empty grid has at least one
\* intersection.
C37_LettersConnected ==
    /\ [](cGrid # <<>> => LettersConnected(cGrid))
    /\ [][AddedWordsTouch]_vars
    /\ [](CandidatesIntersect)

\* Three words are on the working grid, the last two each crossing an earlier
\* one, and a word of the input still has a candidate placement.
C37_Witness ==
    /\ cGrid # <<>>
    /\ Len(cPlaced) >= 3
    /\ cpc \notin {"start", "threw"}
    /\ \E w \in 1..Len(cWords) :
         Len(findPlacements(cGrid, GridSize, cPlaced, cWords[w], getValidWords)) >= 1


\* Every placed word starts on a cell of the working grid.
PlacedStartOnGrid ==
    \A k \in 1..Len(cPlaced) :
        /\ cPlaced[k].row \in 0..(GridSize - 1)
        /\ cPlaced[k].col \in 0..(GridSize - 1)

\* The step is finalize's and the result it returned has one word for each
\* placed word.
FinalizeKeepsCount ==
    (cpc = "finalize" /\ PlacedStartOnGrid) =>
        /\ (cAlg # "smart" => Len(cResult'.words) = Len(cPlaced))
        /\ (cAlg = "smart" /\ cBest' # cBest => Len(cBest'.words) = Len(cPlaced))

\* C38: finalize returns exactly one output word for each word placed on the
\* working grid: the returned words list is as long as the placed list, also
\* when placed words overlap along the same row or column.
C38_OneOutputPerPlaced == [][FinalizeKeepsCount]_vars


\* The words that state.assignments holds.
AssignedWords == {assignments[i] : i \in {j \in 1..Len(assignments) : assignments[j] # Null}}

\* C39: between any two steps of solve usedWords is exactly the set of non-null
\* entries of state.assignments; and when the outermost call of solve returns
\* false every entry of state.assignments is null and usedWords is empty.
C39_UsedWordsAreAssigned ==
    /\ (InSolve \/ fpc = "solved") => usedWords = AssignedWords
    /\ (fpc = "solved" /\ ~fRet) =>
           /\ \A i \in 1..Len(assignments) : assignments[i] = Null
           /\ usedWords = {}

\* The outermost call has returned false after candidates had been assigned
\* and taken back.
C39_Witness ==
    /\ fpc = "solved" /\ ~fRet
    /\ bt >= 2
    /\ Len(assignments) >= 2
    /\ best.filledCount >= 1


\* The word w of slot s has, on every crossing with an assigned slot, the
\* letter of that slot's word: the test of getOrderedCandidates.
AgreesWithAssigned(s, w) ==
    \A k \in 1..Len(slots[s].crossings) :
        LET crossing == slots[s].crossings[k]
            other == assignments[crossing.otherSlotIdx]
        IN other # Null =>
               Letter(w, crossing.indexInSlot) = Letter(other, crossing.indexInOtherSlot)

\* C40: at every entry to solve, every word in the domain of an unassigned
\* slot has, on each crossing with an assigned slot, the letter of that slot's
\* word, and no unassigned slot has an empty domain; hence the
\* crossing-consistency filter of getOrderedCandidates rejects no word.
C40_DomainsArcConsistent ==
    fpc = "enter" =>
        /\ \A s \in Unassigned :
              \A n \in 1..Len(domains[s]) : AgreesWithAssigned(s, domains[s][n])
        /\ \A s \in Unassigned : Len(domains[s]) > 0
        /\ \A s \in Unassigned :
              ConsistentCandidates(s, slots, assignments, domains, usedWords)
                 = SelectSeq(domains[s], LAMBDA w : w \notin usedWords)

\* solve is entered with a word assigned, after a backtrack, and an unassigned
\* slot that crosses the assigned one has lost words of its initial domain.
C40_Witness ==
    /\ fpc = "enter"
    /\ bt >= 1
    /\ \E s \in Unassigned :
         /\ \E k \in 1..Len(slots[s].crossings) :
               assignments[slots[s].crossings[k].otherSlotIdx] # Null
         /\ Len(domains[s]) < Len(InitialDomains(slots)[s])

====
